---- MODULE Spec2Model ----
(***************************************************************************)
(* Motor controller of orionrc (src/mctrl.py) over the HX35 servo proxy    *)
(* (src/hx35.py).                                                          *)
(*                                                                         *)
(* Units.  Angles and focus "steps" are integers in centi-degrees (cd);    *)
(* one encoder unit of the HX35 is 360/1500 degree = 24 cd.  Times are in  *)
(* milliseconds.  Quantities the code computes in floating point that do   *)
(* not fall on these grids (the zoom level, the zoom wait time and the     *)
(* busy-until deadline) are exact rationals [n, d] in lowest terms.        *)
(*                                                                         *)
(* Time.  The code reads time.monotonic() and only ever uses differences   *)
(* between that reading and a stored timestamp.  Every stored timestamp is *)
(* therefore kept relative to the current clock reading: time.monotonic()  *)
(* is 0 in every state and TimePasses(dt) moves each stored timestamp dt   *)
(* into the past.  The time an operation itself takes (bus exchanges, the  *)
(* sleep of a drive burst) is part of the TimePasses step that follows it. *)
(***************************************************************************)
EXTENDS Integers, Sequences, FiniteSets, TLC

VARIABLES
  zoom_motor_state,                 \* MCTRL.zoom_motor_state
  focus_motor_state,                \* MCTRL.focus_motor_state
  focus_position,                   \* MCTRL.focus_position (cd)
  focus_target_position,            \* MCTRL.focus_target_position (cd)
  last_known_time,                  \* MCTRL.last_known_time (ms, relative to now)
  focus_motor_last_run_init_speed,  \* cd per second
  focus_motor_last_run_time,        \* microseconds; -1000000 is the -1.0 sentinel
  focus_motor_last_run_direction,   \* -1, 0, 1
  s,                                \* MCTRL.s, the settings in force
  zoom_motor,                       \* MCTRL.zoom_motor, an HX35 proxy
  focus_motor,                      \* MCTRL.focus_motor, an HX35 proxy
  focus_motor_last_known_angle,     \* cd
  focus_temp,                       \* degrees C
  focus_volt,                       \* millivolts
  focus_temp_volt_next_check,       \* ms, relative to now
  zoom_motor_busy_until_time,       \* rational ms, relative to now
  port_open,                        \* HX35._controller is not None
  hw_focus_angle,                   \* the focus wheel's encoder reading (units)
  hw_focus_speed,                   \* drive speed last commanded to the focus device
  op,                               \* the operation that ran last
  arg,                              \* its argument
  result,                           \* "ok" or the error it raised
  events,                           \* the list timer_tick returned
  tx,                               \* packets written to the bus by that operation
  ret,                              \* the value it returned: <<>> for None, else <<v>>
  train_state,                      \* MCTRL.train_state: 0 off, 1 recording
  rx,                               \* bytes waiting in the serial input buffer
  decoded,                          \* the last HX35._read_packet call and its outcome
  servo                             \* an HX35 proxy driven directly by a caller

vars == <<zoom_motor_state, focus_motor_state, focus_position,
          focus_target_position, last_known_time,
          focus_motor_last_run_init_speed, focus_motor_last_run_time,
          focus_motor_last_run_direction, s, zoom_motor, focus_motor,
          focus_motor_last_known_angle, focus_temp, focus_volt,
          focus_temp_volt_next_check, zoom_motor_busy_until_time, port_open,
          hw_focus_angle, hw_focus_speed, op, arg, result, events, tx,
          ret, train_state, rx, decoded, servo>>

ctrlvars == <<zoom_motor_state, focus_motor_state, focus_position,
              focus_target_position, last_known_time,
              focus_motor_last_run_init_speed, focus_motor_last_run_time,
              focus_motor_last_run_direction, s, zoom_motor, focus_motor,
              focus_motor_last_known_angle, focus_temp, focus_volt,
              focus_temp_volt_next_check, zoom_motor_busy_until_time,
              port_open>>

-----------------------------------------------------------------------------
(* Bounds of the model *)

\* requested zoom levels are k/LevelDen
LevelDen == 2
\* longest time (ms) the model lets pass between two ticks
MaxElapsed == 15000
\* the farthest positions (cd) the caller moves the focus to are -MaxFocus
\* and MaxFocus
MaxFocus == 6000
\* most encoder units the focus wheel turns in one drive burst
MaxTurn == 125

-----------------------------------------------------------------------------
(* Arithmetic *)

Abs(x) == IF x < 0 THEN -x ELSE x

Sign(x) == IF x < 0 THEN -1 ELSE IF x > 0 THEN 1 ELSE 0

\* math.copysign(1.0, x) for the values the model has (no negative zero)
CopySign1(x) == IF x < 0 THEN -1 ELSE 1

RECURSIVE GCD(_, _)
GCD(a, b) == IF b = 0 THEN a ELSE GCD(b, a % b)

\* the rational n/d (d # 0) in lowest terms with a positive denominator
Rat(n, d) ==
  LET g == GCD(Abs(n), Abs(d))
      sg == IF d < 0 THEN -1 ELSE 1
  IN  [n |-> sg * (n \div g), d |-> sg * (d \div g)]

RatInt(k) == [n |-> k, d |-> 1]

RatAdd(a, b) ==
  LET g == GCD(a.d, b.d)
  IN  Rat(a.n * (b.d \div g) + b.n * (a.d \div g), (a.d \div g) * b.d)

RatNeg(a) == [n |-> -a.n, d |-> a.d]

RatSub(a, b) == RatAdd(a, RatNeg(b))

RatMul(a, b) ==
  LET g1 == GCD(Abs(a.n), b.d)
      g2 == GCD(Abs(b.n), a.d)
  IN  Rat((a.n \div g1) * (b.n \div g2), (a.d \div g2) * (b.d \div g1))

RatAbs(a) == [n |-> Abs(a.n), d |-> a.d]

RatLess(a, b) == a.n * b.d < b.n * a.d

\* Python's round() of a non-negative rational: to nearest, ties to even
RatRound(a) ==
  LET q == a.n \div a.d
      r == a.n % a.d
  IN  IF 2 * r < a.d THEN q
      ELSE IF 2 * r > a.d THEN q + 1
      ELSE IF q % 2 = 0 THEN q ELSE q + 1

-----------------------------------------------------------------------------
(* HX35 device proxy (src/hx35.py).  A proxy is a record; every operation  *)
(* maps a proxy to [m: the proxy afterwards, out: the packets it wrote     *)
(* (without header and checksum), err: "ok" or the error raised].          *)

NoMotor ==
  [attached |-> FALSE, _id |-> 0, _commanded_angle |-> 0,
   _waiting_angle |-> 0, _waiting_for_move |-> FALSE, _angle_offset |-> 0,
   _angle_limits |-> <<0, 0>>, _vin_limits |-> <<0, 0>>, _temp_limit |-> 0,
   _motor_mode |-> FALSE, _motor_speed |-> <<>>, _torque_enabled |-> FALSE,
   _led_powered |-> FALSE, _led_error_triggers |-> <<FALSE, FALSE, FALSE>>]

Ok(m, out) == [m |-> m, out |-> out, err |-> "ok"]

Raise(m, e) == [m |-> m, out |-> <<>>, err |-> e]

\* run g on the proxy f left behind, unless f raised
Then(f, g(_)) ==
  IF f.err # "ok" THEN f
  ELSE LET r == g(f.m) IN [m |-> r.m, out |-> f.out \o r.out, err |-> r.err]

_to_bytes(n) == <<n % 256, n \div 256>>

\* round(angle * 1500 / 360) of an angle given as a rational number of cd
\* the conversion for a servo of 1000 units to the turn
ToServoRangeOf1000(angle) == RatRound(RatMul(angle, Rat(1, 36)))

_to_servo_range(angle) == RatRound(RatMul(angle, Rat(1, 24)))

\* angle * 360 / 1500, in cd
_from_servo_range(units) == units * 24

_signed_word(val) == IF val > 32767 THEN val - 65536 ELSE val

\* a range check that lets every value through
WithinAnyLimits(value, lower_limit, upper_limit) == TRUE

_check_within_limits(value, lower_limit, upper_limit) ==
  ~ (RatLess(value, lower_limit) \/ RatLess(upper_limit, value))

enable_torque(m) ==
  Ok([m EXCEPT !._torque_enabled = TRUE], << <<m._id, 4, 31, 0>> >>)

disable_torque(m) ==
  Ok([m EXCEPT !._torque_enabled = FALSE], << <<m._id, 4, 31, 1>> >>)

servo_mode(m) ==
  Ok([m EXCEPT !._motor_mode = FALSE], << <<m._id, 7, 29, 0, 0, 0, 0>> >>)

motor_mode(m, speed) ==
  IF ~ m._torque_enabled THEN Raise(m, "ServoLogicalError")
  ELSE IF speed < -1000 \/ speed > 1000 THEN Raise(m, "ServoArgumentError")
  ELSE LET w == IF speed < 0 THEN speed + 65536 ELSE speed
       IN  Ok([m EXCEPT !._motor_mode = TRUE],
              << <<m._id, 7, 29, 1, 0>> \o _to_bytes(w) >>)

\* limits in cd
set_angle_limits(m, lower_limit, upper_limit) ==
  IF ~ _check_within_limits(RatInt(lower_limit), RatInt(0), RatInt(36000))
     \/ ~ _check_within_limits(RatInt(upper_limit), RatInt(0), RatInt(36000))
     \/ upper_limit < lower_limit
  THEN Raise(m, "ServoArgumentError")
  ELSE LET lo == _to_servo_range(RatInt(lower_limit))
           hi == _to_servo_range(RatInt(upper_limit))
       IN  Ok([m EXCEPT !._angle_limits = <<lo, hi>>],
              << <<m._id, 7, 20>> \o _to_bytes(lo) \o _to_bytes(hi) >>)

set_temp_limit(m, upper_limit) ==
  IF upper_limit < 50 \/ upper_limit > 100 THEN Raise(m, "ServoArgumentError")
  ELSE Ok([m EXCEPT !._temp_limit = upper_limit],
          << <<m._id, 4, 24, upper_limit>> >>)

\* move(angle, time) with relative = False and wait = False, the only form
\* the controller uses; angle is a rational number of cd, time is in ms
move(m, angle, time) ==
  IF ~ m._torque_enabled THEN Raise(m, "ServoLogicalError")
  ELSE IF m._motor_mode THEN Raise(m, "ServoLogicalError")
  ELSE IF ~ _check_within_limits(angle, RatInt(0), RatInt(36000))
    THEN Raise(m, "ServoArgumentError")
  ELSE IF ~ _check_within_limits(angle,
              RatInt(_from_servo_range(m._angle_limits[1])),
              RatInt(_from_servo_range(m._angle_limits[2])))
    THEN Raise(m, "ServoArgumentError")
  ELSE LET u == _to_servo_range(angle)
           a == IF u = 0 THEN 2 ELSE u
       IN  Ok([m EXCEPT !._commanded_angle = a],
              << <<m._id, 7, 1>> \o _to_bytes(a) \o _to_bytes(time) >>)

\* every element of the packet fits a byte; bytes(packet) of _send_packet
\* raises ValueError otherwise and nothing is written
FitsBytes(packet) == \A i \in 1 .. Len(packet) : packet[i] \in 0 .. 255

\* a move that leaves a target of 0 units as it is
TargetAsComputed(angle) == angle

\* "if angle == 0: angle = 2" (hx35.py 189-192)
TargetSent(angle) == IF angle = 0 THEN 2 ELSE angle

\* a torque test that is always passed
MoveAlwaysAllowed(m) == FALSE

\* the two refusals move starts with (hx35.py 167-176)
MoveRefused(m) == ~ m._torque_enabled \/ m._motor_mode

\* a deferred move recorded as if it were an immediate one
MovedAtOnce(m, angle, wait) == [m EXCEPT !._commanded_angle = angle]

\* what move records after sending (hx35.py 206-210)
Moved(m, angle, wait) ==
  IF wait THEN [m EXCEPT !._waiting_angle = angle, !._waiting_for_move = TRUE]
  ELSE [m EXCEPT !._commanded_angle = angle]

\* move(angle, time, relative, wait) in full; angle is a rational number
\* of cd, time is in ms
MoveTo(m, angle, time, relative, wait) ==
  IF MoveRefused(m) THEN Raise(m, "ServoLogicalError")
  ELSE IF ~ _check_within_limits(angle, RatInt(0), RatInt(36000))
    THEN Raise(m, "ServoArgumentError")
  ELSE IF ~ _check_within_limits(angle,
              RatInt(_from_servo_range(m._angle_limits[1])),
              RatInt(_from_servo_range(m._angle_limits[2])))
    THEN Raise(m, "ServoArgumentError")
  ELSE LET u == _to_servo_range(angle)
           r == IF relative THEN u + m._commanded_angle ELSE u
           a == TargetSent(r)
           packet == <<m._id, 7, IF wait THEN 7 ELSE 1>>
                     \o _to_bytes(a) \o _to_bytes(time)
       IN  IF ~ FitsBytes(packet) THEN Raise(m, "ValueError")
           ELSE Ok(Moved(m, a, wait), <<packet>>)

\* a move_start that does not ask whether a move is staged
StartRefusedNever(m) == FALSE

\* the first refusal of move_start (hx35.py 213-214)
StartRefused(m) == ~ m._waiting_for_move

move_start(m) ==
  IF StartRefused(m) THEN Raise(m, "ServoLogicalError")
  ELSE IF ~ m._torque_enabled THEN Raise(m, "ServoLogicalError")
  ELSE IF m._motor_mode THEN Raise(m, "ServoLogicalError")
  ELSE Ok([m EXCEPT !._commanded_angle = m._waiting_angle,
                    !._waiting_for_move = FALSE],
          << <<m._id, 3, 11>> >>)

\* move_stop(); raw is the angle word the device then reports
move_stop(m, raw) ==
  IF m._motor_mode THEN Raise(m, "ServoLogicalError")
  ELSE Ok([m EXCEPT !._commanded_angle =
                      _to_servo_range(
                        RatInt(_from_servo_range(_signed_word(raw))))],
          << <<m._id, 3, 12>>, <<m._id, 3, 28>> >>)

set_id(m, id_) ==
  IF id_ < 0 \/ id_ > 253 THEN Raise(m, "ServoArgumentError")
  ELSE Ok([m EXCEPT !._id = id_], << <<m._id, 4, 13, id_>> >>)

\* a negative offset kept as the signed number of units
OffsetSigned(units) == units

\* "if offset < 0: offset = 256 + offset": the byte sent, which is also
\* what set_angle_offset keeps in _angle_offset (hx35.py 254-259)
OffsetKept(units) == IF units < 0 THEN 256 + units ELSE units

\* set_angle_offset(offset, permanent), offset in cd
set_angle_offset(m, offset, permanent) ==
  IF offset < -3000 \/ offset > 3000 THEN Raise(m, "ServoArgumentError")
  ELSE LET units == _to_servo_range(RatInt(offset))
       IN  Ok([m EXCEPT !._angle_offset = OffsetKept(units)],
              << <<m._id, 4, 17, OffsetKept(units)>> >>
              \o (IF permanent THEN << <<m._id, 3, 18>> >> ELSE <<>>))

\* set_vin_limits(lower_limit, upper_limit) in mV
set_vin_limits(m, lower_limit, upper_limit) ==
  IF lower_limit < 4500 \/ lower_limit > 12000
     \/ upper_limit < 4500 \/ upper_limit > 12000
     \/ upper_limit < lower_limit
  THEN Raise(m, "ServoArgumentError")
  ELSE Ok([m EXCEPT !._vin_limits = <<lower_limit, upper_limit>>],
          << <<m._id, 7, 22>> \o _to_bytes(lower_limit)
             \o _to_bytes(upper_limit) >>)

\* the request packet of a read; the value read is the device's answer
ReadPacket(m, cmd) == << <<m._id, 3, cmd>> >>

\* get_physical_angle on a device whose encoder reports raw (a 16-bit word)
get_physical_angle(raw) == _from_servo_range(_signed_word(raw))

\* get_angle_offset(poll_hardware=True) on a device answering word: the
\* word goes through _from_servo_range twice (hx35.py 384-386); the result
\* is a rational number of cd
PolledAngleOffset(word) == Rat(24 * _from_servo_range(word), 100)

\* HX35(id_): the full poll of the constructor, then enable_torque
HX35New(id_, poll) ==
  IF id_ < 0 \/ id_ > 253 THEN Raise(NoMotor, "ServoArgumentError")
  ELSE LET angle == _to_servo_range(RatInt(get_physical_angle(poll.angle)))
           m0 == [attached |-> TRUE, _id |-> id_,
                  _commanded_angle |-> angle,
                  _waiting_angle |-> angle,
                  _waiting_for_move |-> FALSE,
                  _angle_offset |->
                    _to_servo_range(PolledAngleOffset(poll.offset)),
                  _angle_limits |-> poll.limits,
                  _vin_limits |-> poll.vin_limits,
                  _temp_limit |-> poll.temp_limit,
                  _motor_mode |-> poll.motor_mode,
                  _motor_speed |->
                    IF poll.motor_mode THEN <<poll.speed>> ELSE <<>>,
                  _torque_enabled |-> poll.torque,
                  _led_powered |-> poll.led_powered,
                  _led_error_triggers |-> poll.led_triggers]
           polls == ReadPacket(m0, 28) \o ReadPacket(m0, 19)
                    \o ReadPacket(m0, 21) \o ReadPacket(m0, 23)
                    \o ReadPacket(m0, 25) \o ReadPacket(m0, 30)
                    \o (IF poll.motor_mode THEN ReadPacket(m0, 30) ELSE <<>>)
                    \o ReadPacket(m0, 32) \o ReadPacket(m0, 34)
                    \o ReadPacket(m0, 36)
       IN  Then(Ok(m0, polls), enable_torque)

-----------------------------------------------------------------------------
(* Settings and inputs *)

\* MCTRLSettings() as constructed
DefaultSettings ==
  [zoom_motor_id |-> 1, focus_motor_id |-> 2, timer_interval |-> 100,
   focus_step_speed |-> 1000, focus_pos_precision |-> 30,
   zoom_min_angle |-> 0, zoom_max_angle |-> 27000,
   zoom_in_to_max_time |-> 5000]

\* the configurations the caller passes to initialize: the default one,
\* each combination of enabled devices, a clash of ids, a narrower zoom range
\* and a full-sweep time beyond the 30 s the device accepts for one move
Config(zid, fid, zmin, zmax, sweep) ==
  [DefaultSettings EXCEPT !.zoom_motor_id = zid, !.focus_motor_id = fid,
                          !.zoom_min_angle = zmin, !.zoom_max_angle = zmax,
                          !.zoom_in_to_max_time = sweep]

Settings ==
  {DefaultSettings,
   Config(1, 0, 2400, 24000, 9000),
   Config(1, 0, 0, 27000, 40000),
   Config(0, 2, 0, 27000, 5000),
   Config(0, 0, 0, 27000, 5000),
   Config(1, 1, 0, 27000, 5000)}

\* the configuration with the focus device alone
FocusSettings == {Config(0, 2, 0, 27000, 5000)}

\* raw 16-bit angle words the zoom servo reports: a reading just below its
\* travel (65534 is -2), one inside it and one just above it
ZoomRaw == {65534, 281, 1130}

\* requested zoom levels, as rationals: -1/LevelDen .. (LevelDen+1)/LevelDen
Levels == {Rat(k, LevelDen) : k \in -1 .. LevelDen + 1}

\* temperature (degrees C) and supply voltage (mV) the focus device reports
TempReads == {25}

VoltReads == {7400, 12000}

\* what a freshly attached device answers to the constructor's polls
HwPoll(angle, mm) ==
  [angle |-> angle, motor_mode |-> mm, limits |-> <<0, 1000>>,
   temp_limit |-> 85, torque |-> FALSE, offset |-> 0,
   vin_limits |-> <<4500, 12000>>, speed |-> 0, led_powered |-> TRUE,
   led_triggers |-> <<TRUE, TRUE, TRUE>>]

-----------------------------------------------------------------------------
(* Stored timestamps, relative to the current clock reading *)

\* time.monotonic()
time_now == 0

\* A timestamp already in the past is kept at 1 ms in the past: the code only
\* tests whether such a timestamp is earlier than now.
Expired == RatInt(-1)

PastRat(t, dt) ==
  LET u == RatSub(t, RatInt(dt))
  IN  IF RatLess(u, RatInt(time_now)) THEN Expired ELSE u

PastInt(t, dt) == IF t - dt < time_now THEN -1 ELSE t - dt

\* ms the environment lets pass in one step
TimeSteps == {MaxElapsed \div 3, MaxElapsed}

-----------------------------------------------------------------------------
(* The state after the classes are defined (mctrl.py 33-43).  Attributes    *)
(* the class body does not create (the proxies, the last known angle, the   *)
(* temperature and voltage, the two deadlines) hold a placeholder that no   *)
(* operation reads before assigning it.  last_known_time is 0.0 on a clock  *)
(* that has long been running: the first tick sees the longest elapsed time *)
(* the model has.                                                           *)

\* no _read_packet call has been made yet
NotRead ==
  [asked |-> 0, received |-> <<>>, rest |-> <<>>, err |-> "none",
   why |-> "none", params |-> <<>>]

Init ==
  /\ zoom_motor_state = "UNINITIALIZED"
  /\ focus_motor_state = "UNINITIALIZED"
  /\ focus_position = 0
  /\ focus_target_position = 0
  /\ last_known_time = -MaxElapsed
  /\ focus_motor_last_run_init_speed = 0
  /\ focus_motor_last_run_time = 0
  /\ focus_motor_last_run_direction = 0
  /\ s = DefaultSettings
  /\ zoom_motor = NoMotor
  /\ focus_motor = NoMotor
  /\ focus_motor_last_known_angle = 0
  /\ focus_temp = 0
  /\ focus_volt = 0
  /\ focus_temp_volt_next_check = -1
  /\ zoom_motor_busy_until_time = Expired
  /\ port_open = FALSE
  /\ hw_focus_angle = 0
  /\ hw_focus_speed = 0
  /\ op = "none"
  /\ arg = RatInt(0)
  /\ result = "ok"
  /\ events = <<>>
  /\ tx = <<>>
  /\ ret = <<>>
  /\ train_state = 0
  /\ rx = <<>>
  /\ decoded = NotRead
  /\ servo = NoMotor

-----------------------------------------------------------------------------
(* Environment *)

\* the monotonic clock advances by dt between two operations
TimePasses(dt) ==
  /\ time_now - (last_known_time - dt) <= MaxElapsed
  /\ last_known_time' = last_known_time - dt
  /\ focus_temp_volt_next_check' = PastInt(focus_temp_volt_next_check, dt)
  /\ zoom_motor_busy_until_time' = PastRat(zoom_motor_busy_until_time, dt)
  /\ UNCHANGED <<zoom_motor_state, focus_motor_state, focus_position,
                 focus_target_position, focus_motor_last_run_init_speed,
                 focus_motor_last_run_time, focus_motor_last_run_direction,
                 s, zoom_motor, focus_motor, focus_motor_last_known_angle,
                 focus_temp, focus_volt, port_open, hw_focus_angle,
                 hw_focus_speed, op, arg, result, events, tx, ret,
                 train_state, rx, decoded, servo>>

-----------------------------------------------------------------------------
(* MCTRL.initialize and MCTRL.shutdown *)

ZoomSetup(m) ==
  Then(Then(Then(servo_mode(m),
                 LAMBDA x : set_angle_limits(x, 0, 27000)),
            disable_torque),
       LAMBDA x : set_temp_limit(x, 100))

FocusSetup(m) ==
  Then(Then(motor_mode(m, 0), disable_torque),
       LAMBDA x : set_temp_limit(x, 100))

\* initialize(_s); zraw, zmm, fmm, temp, volt are what the devices answer,
\* and heard is how many of the three closing reads of the focus device
\* (angle, temperature, voltage) are answered before the serial timeout
Initialize(_s, zraw, zmm, fmm, temp, volt, heard) ==
  LET clash == _s.zoom_motor_id = _s.focus_motor_id /\ _s.zoom_motor_id > 0
      zon == _s.zoom_motor_id # 0
      fon == _s.focus_motor_id # 0
      zn == HX35New(_s.zoom_motor_id, HwPoll(zraw, zmm))
      zc == IF zon THEN Then(zn, ZoomSetup) ELSE Ok(zoom_motor, <<>>)
      fn == HX35New(_s.focus_motor_id, HwPoll(hw_focus_angle, fmm))
      fc == IF fon /\ zc.err = "ok" THEN Then(fn, FocusSetup)
            ELSE Ok(focus_motor, <<>>)
      good == zc.err = "ok" /\ fc.err = "ok"
      reads == IF good /\ fon
               THEN SubSeq(ReadPacket(fc.m, 28) \o ReadPacket(fc.m, 26)
                           \o ReadPacket(fc.m, 27),
                           1, IF heard < 3 THEN heard + 1 ELSE 3)
               ELSE <<>>
  IN
  /\ op' = "initialize"
  /\ ret' = <<>>
  /\ UNCHANGED <<train_state, rx, decoded, servo>>
  /\ arg' = RatInt(0)
  /\ events' = <<>>
  /\ s' = _s
  /\ IF clash
     THEN /\ result' = "ServoArgumentError"
          /\ tx' = <<>>
          /\ UNCHANGED <<zoom_motor_state, focus_motor_state, focus_position,
                         focus_target_position, last_known_time,
                         focus_motor_last_run_init_speed,
                         focus_motor_last_run_time,
                         focus_motor_last_run_direction, zoom_motor,
                         focus_motor, focus_motor_last_known_angle,
                         focus_temp, focus_volt, focus_temp_volt_next_check,
                         zoom_motor_busy_until_time, port_open,
                         hw_focus_angle, hw_focus_speed>>
     ELSE /\ result' = IF zc.err # "ok" THEN zc.err
                       ELSE IF fc.err # "ok" THEN fc.err
                       ELSE IF fon /\ heard < 3 THEN "ServoTimeoutError"
                       ELSE "ok"
          /\ tx' = zc.out \o fc.out \o reads
          /\ port_open' = TRUE
          /\ zoom_motor' = IF zon /\ zn.err = "ok" THEN zc.m ELSE zoom_motor
          /\ focus_motor' = IF fon /\ zc.err = "ok" /\ fn.err = "ok"
                            THEN fc.m ELSE focus_motor
          /\ hw_focus_speed' = IF fon /\ zc.err = "ok" /\ fn.err = "ok"
                               THEN 0 ELSE hw_focus_speed
          /\ focus_position' = IF good /\ fon THEN 0 ELSE focus_position
          /\ focus_target_position' =
               IF good /\ fon THEN 0 ELSE focus_target_position
          /\ zoom_motor_state' =
               IF good /\ zon THEN "READY" ELSE zoom_motor_state
          /\ focus_motor_last_known_angle' =
               IF good /\ fon /\ heard >= 1
               THEN get_physical_angle(hw_focus_angle)
               ELSE focus_motor_last_known_angle
          /\ focus_temp' = IF good /\ fon /\ heard >= 2 THEN temp
                           ELSE focus_temp
          /\ focus_volt' = IF good /\ fon /\ heard >= 3 THEN volt
                           ELSE focus_volt
          /\ focus_temp_volt_next_check' =
               IF good /\ fon /\ heard >= 3 THEN time_now + 3000
               ELSE focus_temp_volt_next_check
          /\ focus_motor_state' =
               IF good /\ fon /\ heard >= 3 THEN "READY"
               ELSE focus_motor_state
          /\ UNCHANGED <<last_known_time, focus_motor_last_run_init_speed,
                         focus_motor_last_run_time,
                         focus_motor_last_run_direction,
                         zoom_motor_busy_until_time, hw_focus_angle>>

\* shutdown(); "del" of a proxy that was never created raises AttributeError
Shutdown ==
  LET zd == IF zoom_motor_state # "UNINITIALIZED"
            THEN disable_torque(zoom_motor) ELSE Ok(zoom_motor, <<>>)
      fd == IF focus_motor_state # "UNINITIALIZED"
            THEN disable_torque(focus_motor) ELSE Ok(focus_motor, <<>>)
  IN
  /\ op' = "shutdown"
  /\ ret' = <<>>
  /\ UNCHANGED <<train_state, rx, decoded, servo>>
  /\ arg' = RatInt(0)
  /\ events' = <<>>
  /\ tx' = zd.out \o fd.out
  /\ zoom_motor_state' = "UNINITIALIZED"
  /\ focus_motor_state' = "UNINITIALIZED"
  /\ IF ~ zoom_motor.attached
     THEN /\ result' = "AttributeError"
          /\ zoom_motor' = zd.m
          /\ focus_motor' = fd.m
          /\ port_open' = port_open
     ELSE IF ~ focus_motor.attached
     THEN /\ result' = "AttributeError"
          /\ zoom_motor' = NoMotor
          /\ focus_motor' = fd.m
          /\ port_open' = port_open
     ELSE /\ result' = "ok"
          /\ zoom_motor' = NoMotor
          /\ focus_motor' = NoMotor
          /\ port_open' = FALSE
  /\ UNCHANGED <<focus_position, focus_target_position, last_known_time,
                 focus_motor_last_run_init_speed, focus_motor_last_run_time,
                 focus_motor_last_run_direction, s,
                 focus_motor_last_known_angle, focus_temp, focus_volt,
                 focus_temp_volt_next_check, zoom_motor_busy_until_time,
                 hw_focus_angle, hw_focus_speed>>

-----------------------------------------------------------------------------
(* Zoom *)

\* the clamps of get_zoom_current_level left out
ZoomLevelUnclamped(raw) ==
  Rat(get_physical_angle(raw) - s.zoom_min_angle,
      s.zoom_max_angle - s.zoom_min_angle)

\* get_zoom_current_level() on an initialized zoom whose servo reports raw
get_zoom_current_level(raw) ==
  LET angle == get_physical_angle(raw)
      val == Rat(angle - s.zoom_min_angle, s.zoom_max_angle - s.zoom_min_angle)
  IN  IF RatLess(val, RatInt(0)) THEN RatInt(0)
      ELSE IF RatLess(RatInt(1), val) THEN RatInt(1)
      ELSE val

\* new_angle_real (cd) of set_zoom_current_level
ZoomTargetAngle(val) ==
  RatAdd(RatInt(s.zoom_min_angle),
         RatMul(val, RatInt(s.zoom_max_angle - s.zoom_min_angle)))

\* wait_time (ms) of set_zoom_current_level
ZoomWaitTime(val, old_angle_norm) ==
  RatMul(RatInt(s.zoom_in_to_max_time), RatAbs(RatSub(val, old_angle_norm)))

\* time_ms without the cap
ZoomTimeUncapped(wait_time) == RatRound(wait_time)

\* time_ms of set_zoom_current_level
ZoomTimeMs(wait_time) ==
  LET time_ms == RatRound(wait_time)
  IN  IF time_ms > 30000 THEN 30000 ELSE time_ms

\* the deadline set_zoom_current_level records
ZoomBusyUntil(wait_time) ==
  RatAdd(RatAdd(RatInt(time_now), RatMul(wait_time, Rat(11, 10))), RatInt(100))

\* the range test without its lower end
ZoomLevelNotAbove(val) == ~ RatLess(RatInt(1), val)

\* the range test on the requested level (mctrl.py 126)
ZoomLevelValid(val) ==
  ~ (RatLess(val, RatInt(0)) \/ RatLess(RatInt(1), val))

\* the move in flight is left running
ZoomNoAbort(m) == Ok(m, <<>>)

\* the move in flight is aborted (mctrl.py 134-136)
ZoomAbort(m) ==
  IF zoom_motor_state = "BUSY" THEN disable_torque(m) ELSE Ok(m, <<>>)

\* set_zoom_current_level(val); raw is what the servo answers to the angle poll
SetZoom(val, raw) ==
  /\ op' = "set_zoom"
  /\ ret' = <<>>
  /\ UNCHANGED <<train_state, rx, decoded, servo>>
  /\ arg' = val
  /\ events' = <<>>
  /\ IF ~ ZoomLevelValid(val)
     THEN /\ result' = "ServoArgumentError"
          /\ tx' = <<>>
          /\ UNCHANGED <<zoom_motor_state, zoom_motor,
                         zoom_motor_busy_until_time>>
     ELSE IF zoom_motor_state = "UNINITIALIZED"
     THEN /\ result' = "ServoLogicalError"
          /\ tx' = <<>>
          /\ UNCHANGED <<zoom_motor_state, zoom_motor,
                         zoom_motor_busy_until_time>>
     ELSE LET ab == ZoomAbort(zoom_motor)
              old_angle_norm == get_zoom_current_level(raw)
              new_angle_real == ZoomTargetAngle(val)
              wait_time == ZoomWaitTime(val, old_angle_norm)
              time_ms == ZoomTimeMs(wait_time)
              mv == Then(Then(Then(ab, LAMBDA x : Ok(x, ReadPacket(x, 28))),
                              enable_torque),
                         LAMBDA x : move(x, new_angle_real, time_ms))
          IN  /\ result' = mv.err
              /\ tx' = mv.out
              /\ zoom_motor' = mv.m
              /\ IF mv.err = "ok"
                 THEN /\ zoom_motor_busy_until_time' = ZoomBusyUntil(wait_time)
                      /\ zoom_motor_state' = "BUSY"
                 ELSE /\ zoom_motor_busy_until_time' =
                           zoom_motor_busy_until_time
                      /\ zoom_motor_state' = "READY"
  /\ UNCHANGED <<focus_motor_state, focus_position, focus_target_position,
                 last_known_time, focus_motor_last_run_init_speed,
                 focus_motor_last_run_time, focus_motor_last_run_direction,
                 s, focus_motor, focus_motor_last_known_angle, focus_temp,
                 focus_volt, focus_temp_volt_next_check, port_open,
                 hw_focus_angle, hw_focus_speed>>

-----------------------------------------------------------------------------
(* Focus *)

\* a wheel taken to stand still
AngleChangeNone(last_known_angle, new_angle) == 0

\* the plain difference of the two angles, taken the long way round when
\* the reading passes through zero
AngleChangeUnwrapped(last_known_angle, new_angle) ==
  new_angle - last_known_angle

\* angle_change of update_focus_position (cd), from the previous and the
\* new angle
AngleChange(last_known_angle, new_angle) ==
  IF new_angle > last_known_angle
  THEN IF new_angle - last_known_angle <= 18000
       THEN new_angle - last_known_angle
       ELSE (new_angle - last_known_angle) - 36000
  ELSE IF last_known_angle - new_angle <= 18000
       THEN new_angle - last_known_angle
       ELSE 36000 - (last_known_angle - new_angle)

\* angle_change / time_passed in cd per second, truncated to an integer
InitSpeed(angle_change, time_passed) == (angle_change * 1000) \div time_passed

\* focus_estimate_steps_time(steps_to_make) in nanoseconds, given the speed
\* estimate, temperature and voltage the tick has just stored; 442.25 ns per
\* cd/s of speed is taken as 442 + 1/4 with the quarter truncated
focus_estimate_steps_time(steps_to_make, init_speed, temp, volt) ==
  LET v == init_speed * CopySign1(steps_to_make)
      run_time == 140640000 + 87180 * Abs(steps_to_make)
                  - (442 * v + (v \div 4))
                  - 470000 * (temp + 100)
                  - 4997 * volt
                  - 79810 * s.focus_step_speed
  IN  IF run_time >= 1000000 THEN run_time ELSE 1000000

\* int(copysign(focus_step_speed, steps_to_make))
StepSpeed(steps_to_make) ==
  CopySign1(steps_to_make) * Abs(s.focus_step_speed)

\* a burst that never leaves the drive on
BurstKindAlwaysStopped(steps_time) ==
  IF steps_time > ((s.timer_interval * 1000000) \div 10) * 2 THEN "tenth"
  ELSE "half"

\* which way focus_do_steps ends: "run" leaves the drive on, "tenth" and
\* "half" stop it after the sleep
BurstKind(steps_time) ==
  IF steps_time > s.timer_interval * 4 * 1000000 THEN "run"
  ELSE IF steps_time > ((s.timer_interval * 1000000) \div 10) * 2 THEN "tenth"
  ELSE "half"

\* focus_do_steps(steps_to_make) on proxy m
focus_do_steps(m, steps_to_make, init_speed, temp, volt) ==
  LET on == motor_mode(m, StepSpeed(steps_to_make))
      steps_time == focus_estimate_steps_time(steps_to_make, init_speed,
                                               temp, volt)
      kind == BurstKind(steps_time)
      off == IF kind = "run" THEN on ELSE Then(on, LAMBDA x : motor_mode(x, 0))
  IN  [m |-> off.m, out |-> off.out, err |-> off.err,
       speed |-> IF on.err # "ok" THEN hw_focus_speed
                 ELSE IF kind = "run" THEN StepSpeed(steps_to_make) ELSE 0,
       run_direction |-> IF on.err = "ok" THEN CopySign1(steps_to_make) ELSE 0,
       run_time |-> IF on.err # "ok" THEN 0
                    ELSE IF kind = "run" THEN -1000000
                    ELSE IF kind = "tenth"
                      THEN (s.timer_interval * 1000) \div 10
                    ELSE steps_time \div 1000,
       \* time.sleep between the two drive commands, in nanoseconds
       sleep |-> IF on.err # "ok" \/ kind = "run" THEN 0
                 ELSE IF kind = "tenth"
                   THEN (s.timer_interval * 1000000) \div 10
                 ELSE steps_time \div 2]

\* the encoder reading after the wheel has turned k units (k may be negative)
Turned(raw, k) == (raw + k) % 1500


\* target - position as the next tick will compute it
Remaining ==
  focus_target_position
  - (focus_position + AngleChange(focus_motor_last_known_angle,
                                  get_physical_angle(hw_focus_angle)))

Min(a, b) == IF a < b THEN a ELSE b

Max(a, b) == IF a > b THEN a ELSE b

\* units the focus wheel may turn, in the direction driven, as the result of
\* one drive burst: not at all, or as far as the target plus one of the given
\* errors; never more than MaxTurn
BurstTurns(errs) ==
  LET u == Abs(Remaining) \div 24
  IN  {0} \cup {Min(Max(u + e, 0), MaxTurn) : e \in errs}

\* the deadline test with the comparison turned around
ZoomDeadlineAhead ==
  RatLess(RatInt(time_now), zoom_motor_busy_until_time)

\* the zoom deadline test of timer_tick (mctrl.py 288)
ZoomDeadlinePassed ==
  RatLess(zoom_motor_busy_until_time, RatInt(time_now))

\* the arrival test with twice the tolerance
FocusArrivedWide(steps_to_make) ==
  Abs(steps_to_make) <= 2 * s.focus_pos_precision

\* the arrival test demanding the exact position
FocusArrivedExactly(steps_to_make) == steps_to_make = 0

\* the arrival test of timer_tick (mctrl.py 304)
FocusArrived(steps_to_make) == Abs(steps_to_make) < s.focus_pos_precision

\* timer_tick(); temp and volt are what the focus device answers if polled,
\* k is how far the wheel turns if this tick drives it
\* a list with the focus event ahead of the zoom event
FocusEventFirst(zev, fev) == fev \o zev

\* ret of timer_tick: the zoom branch appends first (mctrl.py 287-293), the
\* focus branch after it (mctrl.py 301-311)
TickEvents(zev, fev) == zev \o fev

Tick(k, temp, volt) ==
  LET time_passed == time_now - last_known_time
      \* zoom (mctrl.py 287-293)
      zdone == zoom_motor_state = "BUSY" /\ ZoomDeadlinePassed
      zd == IF zdone THEN disable_torque(zoom_motor) ELSE Ok(zoom_motor, <<>>)
      zev == IF zoom_motor_state # "BUSY" THEN <<>>
             ELSE IF zdone THEN <<"ZOOM_DONE">> ELSE <<"ZOOM_MOVING">>
      \* temperature and voltage refresh (mctrl.py 295-299)
      fon == focus_motor_state # "UNINITIALIZED"
      check == fon /\ focus_temp_volt_next_check < time_now
      t1 == IF check THEN temp ELSE focus_temp
      v1 == IF check THEN volt ELSE focus_volt
      \* update_focus_position (mctrl.py 300)
      new_angle == get_physical_angle(hw_focus_angle)
      angle_change == AngleChange(focus_motor_last_known_angle, new_angle)
      pos == IF fon THEN focus_position + angle_change ELSE focus_position
      spd == IF fon THEN InitSpeed(angle_change, time_passed)
             ELSE focus_motor_last_run_init_speed
      polls == IF fon
               THEN (IF check THEN ReadPacket(focus_motor, 26)
                                   \o ReadPacket(focus_motor, 27)
                     ELSE <<>>)
                    \o ReadPacket(focus_motor, 28) \o ReadPacket(focus_motor, 28)
               ELSE <<>>
      \* the move in flight (mctrl.py 301-311)
      busy == focus_motor_state = "BUSY"
      steps_to_make == focus_target_position - pos
      arrived == busy /\ FocusArrived(steps_to_make)
      stop == Then(motor_mode(focus_motor, 0), disable_torque)
      burst == focus_do_steps(focus_motor, steps_to_make, spd, t1, v1)
      ferr == IF ~ busy THEN "ok"
              ELSE IF arrived THEN stop.err ELSE burst.err
  IN
  /\ op' = "tick"
  /\ ret' = <<>>
  /\ UNCHANGED <<train_state, rx, decoded, servo>>
  /\ arg' = RatInt(0)
  /\ last_known_time' = time_now
  /\ IF time_passed = 0
     THEN /\ result' = "ok"
          /\ events' = <<>>
          /\ tx' = <<>>
          /\ UNCHANGED <<zoom_motor_state, focus_motor_state, focus_position,
                         focus_motor_last_run_init_speed,
                         focus_motor_last_run_time,
                         focus_motor_last_run_direction, zoom_motor,
                         focus_motor, focus_motor_last_known_angle,
                         focus_temp, focus_volt, focus_temp_volt_next_check,
                         hw_focus_angle, hw_focus_speed>>
     ELSE /\ result' = ferr
          /\ events' = IF ferr # "ok" THEN <<>>
                       ELSE TickEvents(zev, IF ~ busy THEN <<>>
                                            ELSE IF arrived
                                              THEN <<"FOCUS_DONE">>
                                            ELSE <<"FOCUS_MOVING">>)
          /\ tx' = zd.out \o polls
                   \o (IF ~ busy THEN <<>>
                       ELSE IF arrived THEN stop.out ELSE burst.out)
          /\ zoom_motor' = zd.m
          /\ zoom_motor_state' = IF zdone THEN "READY" ELSE zoom_motor_state
          /\ focus_temp' = t1
          /\ focus_volt' = v1
          /\ focus_temp_volt_next_check' =
               IF check THEN time_now + 3000 ELSE focus_temp_volt_next_check
          /\ focus_motor_last_known_angle' =
               IF fon THEN new_angle ELSE focus_motor_last_known_angle
          /\ focus_position' = pos
          /\ focus_motor_last_run_init_speed' = spd
          /\ focus_motor' = IF ~ busy THEN focus_motor
                            ELSE IF arrived THEN stop.m ELSE burst.m
          /\ focus_motor_state' =
               IF arrived /\ stop.err = "ok" THEN "READY"
               ELSE focus_motor_state
          /\ focus_motor_last_run_time' =
               IF busy /\ ~ arrived THEN burst.run_time
               ELSE IF fon THEN 0 ELSE focus_motor_last_run_time
          /\ focus_motor_last_run_direction' =
               IF busy /\ ~ arrived THEN burst.run_direction
               ELSE IF fon THEN 0 ELSE focus_motor_last_run_direction
          /\ hw_focus_speed' =
               IF ~ busy THEN hw_focus_speed
               ELSE IF arrived
                 THEN (IF stop.out # <<>> THEN 0 ELSE hw_focus_speed)
               ELSE burst.speed
          /\ hw_focus_angle' =
               IF busy /\ ~ arrived /\ burst.out # <<>>
               THEN Turned(hw_focus_angle, CopySign1(steps_to_make) * k)
               ELSE hw_focus_angle
  /\ UNCHANGED <<focus_target_position, s, zoom_motor_busy_until_time,
                 port_open>>

\* the target counted from the previous target
FocusTargetAdded(value) == focus_target_position + value

\* the target move_focus stores (mctrl.py 325 and 328)
NewFocusTarget(value) == focus_position + value

\* the refusal of move_focus left out
FocusMoveNeverRefused == FALSE

\* move_focus refuses to act on a focus that is not initialized (mctrl.py 318)
FocusMoveRefused == focus_motor_state = "UNINITIALIZED"

\* move_focus(value), value in cd
MoveFocus(value) ==
  /\ op' = "move_focus"
  /\ ret' = <<>>
  /\ UNCHANGED <<train_state, rx, decoded, servo>>
  /\ arg' = RatInt(value)
  /\ events' = <<>>
  /\ IF FocusMoveRefused
     THEN /\ result' = "ServoLogicalError"
          /\ tx' = <<>>
          /\ UNCHANGED <<focus_motor, focus_target_position,
                         focus_motor_state>>
     ELSE IF focus_motor_state = "READY"
     THEN LET en == enable_torque(focus_motor)
          IN  /\ result' = "ok"
              /\ tx' = en.out
              /\ focus_motor' = en.m
              /\ focus_target_position' = NewFocusTarget(value)
              /\ focus_motor_state' = "BUSY"
     ELSE /\ result' = "ok"
          /\ tx' = <<>>
          /\ focus_target_position' = NewFocusTarget(value)
          /\ UNCHANGED <<focus_motor, focus_motor_state>>
  /\ UNCHANGED <<zoom_motor_state, focus_position, last_known_time,
                 focus_motor_last_run_init_speed, focus_motor_last_run_time,
                 focus_motor_last_run_direction, s, zoom_motor,
                 focus_motor_last_known_angle, focus_temp, focus_volt,
                 focus_temp_volt_next_check, zoom_motor_busy_until_time,
                 port_open, hw_focus_angle, hw_focus_speed>>

\* a reset that ends the move in progress
FocusReadyOnReset == "READY"

\* reset_focus_current_position makes no call of set_focus_motor_state
FocusStateOnReset == focus_motor_state

\* a reset that leaves the target of the move in progress alone
ResetTargetKept(value) == focus_target_position

\* the target reset_focus_current_position stores: the new position
\* (mctrl.py 177)
ResetTarget(value) == value

\* reset_focus_current_position(value), value in cd
ResetFocus(value) ==
  /\ op' = "reset_focus"
  /\ ret' = <<>>
  /\ UNCHANGED <<train_state, rx, decoded, servo>>
  /\ arg' = RatInt(value)
  /\ events' = <<>>
  /\ focus_position' = value
  /\ focus_target_position' = ResetTarget(value)
  /\ IF focus_motor.attached
     THEN /\ result' = "ok"
          /\ tx' = ReadPacket(focus_motor, 28)
          /\ focus_motor_last_known_angle' = get_physical_angle(hw_focus_angle)
     ELSE /\ result' = "AttributeError"
          /\ tx' = <<>>
          /\ UNCHANGED focus_motor_last_known_angle
  /\ focus_motor_state' = FocusStateOnReset
  /\ UNCHANGED <<zoom_motor_state, last_known_time,
                 focus_motor_last_run_init_speed, focus_motor_last_run_time,
                 focus_motor_last_run_direction, s, zoom_motor, focus_motor,
                 focus_temp, focus_volt, focus_temp_volt_next_check,
                 zoom_motor_busy_until_time, port_open, hw_focus_angle,
                 hw_focus_speed>>

-----------------------------------------------------------------------------
(* Queries and the training switch *)

\* an operation o that returns value after sending the packets out (or
\* raises err) and assigns no attribute of MCTRL
Answer(o, value, out, err) ==
  /\ op' = o
  /\ arg' = RatInt(0)
  /\ events' = <<>>
  /\ result' = err
  /\ ret' = value
  /\ tx' = out
  /\ UNCHANGED <<zoom_motor_state, focus_motor_state, focus_position,
                 focus_target_position, last_known_time,
                 focus_motor_last_run_init_speed, focus_motor_last_run_time,
                 focus_motor_last_run_direction, s, zoom_motor, focus_motor,
                 focus_motor_last_known_angle, focus_temp, focus_volt,
                 focus_temp_volt_next_check, zoom_motor_busy_until_time,
                 port_open, hw_focus_angle, hw_focus_speed, train_state, rx,
                 decoded, servo>>

IsZoomEnabled ==
  Answer("is_zoom_enabled", <<zoom_motor_state # "UNINITIALIZED">>, <<>>, "ok")

IsFocusEnabled ==
  Answer("is_focus_enabled", <<focus_motor_state # "UNINITIALIZED">>, <<>>,
         "ok")

\* get_zoom_current_level(); raw is what the zoom servo reports
GetZoomLevel(raw) ==
  IF zoom_motor_state = "UNINITIALIZED"
  THEN Answer("get_zoom_level", <<>>, <<>>, "ok")
  ELSE IF ~ zoom_motor.attached
  THEN Answer("get_zoom_level", <<>>, <<>>, "AttributeError")
  ELSE Answer("get_zoom_level", <<get_zoom_current_level(raw)>>,
              ReadPacket(zoom_motor, 28), "ok")

GetFocusPosition ==
  Answer("get_focus_position", <<focus_position>>, <<>>, "ok")

\* get_focus_current_angle()
GetFocusAngle ==
  IF focus_motor_state = "UNINITIALIZED"
  THEN Answer("get_focus_angle", <<>>, <<>>, "ok")
  ELSE IF ~ focus_motor.attached
  THEN Answer("get_focus_angle", <<>>, <<>>, "AttributeError")
  ELSE Answer("get_focus_angle", <<get_physical_angle(hw_focus_angle)>>,
              ReadPacket(focus_motor, 28), "ok")

\* the words test_send_command understands, and one it does not
TrainWords == {"start", "stop", "drop", "status"}

\* test_send_command(in_val).  The rows recorded for training (train_set)
\* are written to a file on "stop" and are not part of the state here.
ToggleTraining(in_val) ==
  LET starts == focus_motor_state = "READY" /\ train_state = 0
                /\ in_val = "start"
      ends == focus_motor_state = "READY" /\ train_state # 0
              /\ in_val \in {"drop", "stop"}
  IN
  /\ op' = "toggle_training"
  /\ arg' = RatInt(0)
  /\ events' = <<>>
  /\ result' = "ok"
  /\ tx' = <<>>
  /\ ret' = IF starts THEN <<"recording started">>
            ELSE IF ends /\ in_val = "drop" THEN <<"data dropped">>
            ELSE IF ends THEN <<"train_set_dump">>
            ELSE <<"start | stop | drop">>
  /\ train_state' = IF starts THEN 1 ELSE IF ends THEN 0 ELSE train_state
  /\ focus_motor_last_run_time' =
       IF starts THEN 0 ELSE focus_motor_last_run_time
  /\ focus_motor_last_run_direction' =
       IF starts THEN 0 ELSE focus_motor_last_run_direction
  /\ UNCHANGED <<zoom_motor_state, focus_motor_state, focus_position,
                 focus_target_position, last_known_time,
                 focus_motor_last_run_init_speed, s, zoom_motor, focus_motor,
                 focus_motor_last_known_angle, focus_temp, focus_volt,
                 focus_temp_volt_next_check, zoom_motor_busy_until_time,
                 port_open, hw_focus_angle, hw_focus_speed, rx, decoded,
                 servo>>

-----------------------------------------------------------------------------
(* Specifications *)

\* positions (cd) the caller moves the focus to, and values it resets the
\* position counter to
FocusMarks == {-MaxFocus, 0, 20, MaxFocus}

ResetValues == {0}

\* how far from the target (encoder units) a drive burst may leave the wheel
TurnErrors == {-1, 0, 2}

\* The steps of the environment and of the caller, each drawing its inputs
\* from the given sets.

\* time goes by
Elapse(steps) == \E dt \in steps : TimePasses(dt)

\* the caller initializes the controller at start-up, again if that failed
Start(cfgs, volts) ==
  \E c \in cfgs, mm \in BOOLEAN, temp \in TempReads, volt \in volts :
    /\ op \in {"none", "initialize"}
    /\ zoom_motor_state = "UNINITIALIZED"
    /\ focus_motor_state = "UNINITIALIZED"
    /\ Initialize(c, 0, mm, mm, temp, volt, 3)

\* the caller initializes the controller at start-up and after a shutdown
\* (the restart loop of the application); the focus device answers heard of
\* the closing reads
StartHearing(cfgs, heards) ==
  \E c \in cfgs, mm \in BOOLEAN, temp \in TempReads, volt \in VoltReads,
     heard \in heards :
    /\ op \in {"none", "shutdown"}
    /\ Initialize(c, 0, mm, mm, temp, volt, heard)

ZoomTo(levels, raws) == \E val \in levels, raw \in raws : SetZoom(val, raw)

\* the periodic timer fires; the focus wheel turns as far as the target
\* plus one of the errors errs (in encoder units) if the tick drives it
TimerFires(errs, volts) ==
  \E k \in BurstTurns(errs), temp \in TempReads, volt \in volts :
    Tick(k, temp, volt)

\* a focus move is asked for as the distance from the position counter to
\* one of the marks
FocusTo(marks) == \E mark \in marks : MoveFocus(mark - focus_position)

ResetTo(resets) == \E value \in resets : ResetFocus(value)

\* the zoom machine with all its inputs, next to a focus that only makes
\* moves shorter than the precision
ZoomNext ==
  \/ Elapse(TimeSteps)
  \/ Start(Settings, {7400})
  \/ Shutdown
  \/ ZoomTo(Levels, ZoomRaw)
  \/ TimerFires({0}, {7400})
  \/ FocusTo({20})
  \/ ResetTo({0})

ZoomSpec == Init /\ [][ZoomNext]_vars

\* the focus machine: moves between the marks, the wheel stopping short of
\* the target, on it or past it
FocusNext ==
  \/ Elapse({MaxElapsed})
  \/ Start(FocusSettings, VoltReads)
  \/ Shutdown
  \/ TimerFires(TurnErrors, VoltReads)
  \/ FocusTo(FocusMarks)

FocusSpec == Init /\ [][FocusNext]_vars

TypeOK ==
  /\ zoom_motor_state \in {"UNINITIALIZED", "READY", "BUSY"}
  /\ focus_motor_state \in {"UNINITIALIZED", "READY", "BUSY"}
  /\ last_known_time \in -MaxElapsed .. 0

-----------------------------------------------------------------------------
(* Reading a step.  Every operation records its name in op; time passing    *)
(* leaves op alone and moves last_known_time.                               *)

\* this step is a call of operation o other than timer_tick
CallStep(o) == op' = o /\ last_known_time' = last_known_time

\* this step is a call of timer_tick
TickStep == op' = "tick" /\ last_known_time' = time_now

\* time has passed since the previous tick
TimeElapsed == last_known_time < time_now

Has(seq, x) == \E i \in 1 .. Len(seq) : seq[i] = x

\* the duration (ms) carried by a timed-move packet
SentTime(pkt) == pkt[6] + 256 * pkt[7]

\* the packets of a sequence that are timed moves (command 1)
Moves(out) == SelectSeq(out, LAMBDA pkt : pkt[3] = 1)

\* the level the zoom servo is at when its encoder reports raw
LevelAt(raw) == get_zoom_current_level(raw)

\* full_sweep_time * |v - level| in ms, as a rational
SweepFraction(v, level) ==
  RatMul(RatInt(s.zoom_in_to_max_time), RatAbs(RatSub(v, level)))

InRange(v) == ~ RatLess(v, RatInt(0)) /\ ~ RatLess(RatInt(1), v)

-----------------------------------------------------------------------------
(* Zoom: the tick *)

\* what a tick does to a zoom that is BUSY, and when ZOOM_DONE is emitted
ZoomTickRule ==
  /\ zoom_motor_state = "BUSY" =>
        IF RatLess(zoom_motor_busy_until_time, RatInt(time_now))
        THEN /\ zoom_motor_state' = "READY"
             /\ ~ zoom_motor'._torque_enabled
             /\ Has(tx', <<zoom_motor._id, 4, 31, 1>>)
             /\ Has(events', "ZOOM_DONE")
             /\ ~ Has(events', "ZOOM_MOVING")
        ELSE /\ zoom_motor_state' = "BUSY"
             /\ zoom_motor'._torque_enabled
             /\ Has(events', "ZOOM_MOVING")
             /\ ~ Has(events', "ZOOM_DONE")
  /\ Has(events', "ZOOM_DONE") =>
        /\ zoom_motor_state = "BUSY"
        /\ RatLess(zoom_motor_busy_until_time, RatInt(time_now))

\* C4 as stated: on every tick with the zoom BUSY, before the deadline the
\* tick emits ZOOM_MOVING and leaves the zoom BUSY with torque enabled, after
\* the deadline it disables torque, makes the zoom READY and emits ZOOM_DONE;
\* ZOOM_DONE is never emitted before the deadline.
C4_EveryTick == [][TickStep => ZoomTickRule]_vars

\* C4, amended: the same, on every tick that finds time has passed since the
\* previous tick (a tick at the same clock reading returns no event and
\* leaves the zoom as it is).
C4_TickAfterTimePassed == [][(TickStep /\ TimeElapsed) => ZoomTickRule]_vars

\* a tick has found the deadline passed and finished the zoom move
C4_Witness ==
  /\ op = "tick"
  /\ Has(events, "ZOOM_DONE")
  /\ zoom_motor_state = "READY"
  /\ ~ zoom_motor._torque_enabled

\* One zoom move after another, each left to run to its end: the caller
\* asks for a new level only when the zoom is not BUSY and does not shut
\* down.  The periodic timer of the caller (orionrc.py, 100 ms) keeps firing
\* and the clock keeps advancing.
ZoomRunNext ==
  \/ Elapse(TimeSteps)
  \/ Start({DefaultSettings, Config(1, 0, 0, 27000, 40000)}, {7400})
  \/ /\ zoom_motor_state # "BUSY"
     /\ ZoomTo(Levels, ZoomRaw)
  \/ TimerFires({0}, {7400})

ZoomRunSpec ==
  /\ Init
  /\ [][ZoomRunNext]_vars
  /\ WF_vars(TimerFires({0}, {7400}))
  /\ WF_vars(Elapse(TimeSteps))

\* C5: once the zoom is BUSY, with ticks firing, time advancing and no
\* further set_zoom_level, the zoom eventually is READY again; it leaves BUSY
\* only in a tick that emits ZOOM_DONE exactly once, and ZOOM_DONE is emitted
\* by no other tick and by no call that is not a tick, so that each BUSY
\* period has exactly one ZOOM_DONE.
C5_ZoomMoveEnds ==
  /\ (zoom_motor_state = "BUSY") ~> (zoom_motor_state = "READY")
  /\ [][/\ (zoom_motor_state = "BUSY" /\ zoom_motor_state' # "BUSY") =>
            /\ TickStep
            /\ zoom_motor_state' = "READY"
            /\ Len(SelectSeq(events', LAMBDA e : e = "ZOOM_DONE")) = 1
        /\ (TickStep /\ Has(events', "ZOOM_DONE")) =>
            /\ zoom_motor_state = "BUSY"
            /\ zoom_motor_state' = "READY"
        /\ ~ TickStep => (events' = events \/ events' = <<>>)]_vars

\* a move of a zoom whose full sweep takes longer than the device accepts
\* has come to its end
C5_Witness ==
  /\ op = "tick"
  /\ events = <<"ZOOM_DONE">>
  /\ zoom_motor_state = "READY"
  /\ s.zoom_in_to_max_time > 30000

-----------------------------------------------------------------------------
(* Zoom: set_zoom_current_level *)

\* the packets of a zoom request for level v that finds the servo at raw:
\* the angle poll, torque on, one timed move to zoom_min_angle +
\* v * (zoom_max_angle - zoom_min_angle) lasting full_sweep_time *
\* |v - level| ms, to the nearest ms and at most 30000
ZoomRequestPackets(m, v, raw) ==
  LET target == RatAdd(RatInt(s.zoom_min_angle),
                       RatMul(v, RatInt(s.zoom_max_angle - s.zoom_min_angle)))
      dur == SweepFraction(v, LevelAt(raw))
      ms == IF RatLess(RatInt(30000), dur) THEN 30000 ELSE RatRound(dur)
      on == [m EXCEPT !._torque_enabled = TRUE]
  IN  << <<m._id, 3, 28>>, <<m._id, 4, 31, 0>> >> \o move(on, target, ms).out

C8_DeadlineFromSentDuration ==
  [][(CallStep("set_zoom") /\ result' = "ok") =>
       LET sent == SentTime(Moves(tx')[1])
           want == Rat(11 * sent + 1000, 10)
       IN  /\ RatLess(RatSub(want, RatInt(1)), zoom_motor_busy_until_time')
           /\ RatLess(zoom_motor_busy_until_time', RatAdd(want, RatInt(1)))
           /\ ~ RatLess(RatInt(time_now + 33100),
                        zoom_motor_busy_until_time')]_vars

\* C9: set_zoom_level(v) raises ArgumentError when v < 0 or v > 1, whatever
\* the zoom state, and LogicalError when v is in range and the zoom is
\* UNINITIALIZED; either way nothing is sent and the zoom state, the torque
\* flag (the whole proxy) and the deadline stay as they were.
C9_RequestRejected ==
  [][CallStep("set_zoom") =>
       LET v == arg'
           outside == RatLess(v, RatInt(0)) \/ RatLess(RatInt(1), v)
       IN  /\ outside => result' = "ServoArgumentError"
           /\ (~ outside /\ zoom_motor_state = "UNINITIALIZED") =>
                result' = "ServoLogicalError"
           /\ (~ outside /\ zoom_motor_state # "UNINITIALIZED") =>
                result' = "ok"
           /\ result' # "ok" =>
                /\ tx' = <<>>
                /\ UNCHANGED <<zoom_motor_state, zoom_motor,
                               zoom_motor_busy_until_time>>]_vars

\* a level below 0 has been refused while a zoom move is in flight
C9_Witness ==
  /\ op = "set_zoom"
  /\ RatLess(arg, RatInt(0))
  /\ result = "ServoArgumentError"
  /\ tx = <<>>
  /\ zoom_motor_state = "BUSY"
  /\ zoom_motor._torque_enabled

-----------------------------------------------------------------------------
(* Focus *)

\* the packets of a sequence that put the device in motor mode at a speed
Drives(out) == SelectSeq(out, LAMBDA pkt : pkt[3] = 29 /\ pkt[4] = 1)

\* the signed speed such a packet carries
DriveSpeed(pkt) == _signed_word(pkt[6] + 256 * pkt[7])

\* C1 as stated: move_focus(d) while the focus is BUSY adds d to the target
\* in force, wherever the position is.
C1_BusyMoveAccumulates ==
  [][(CallStep("move_focus") /\ focus_motor_state = "BUSY") =>
       focus_target_position' = focus_target_position + arg'.n]_vars

\* what a tick does to a focus that is BUSY, rem being target - position
\* with the position the tick has just brought up to date
FocusTickRule ==
  LET rem == focus_target_position - focus_position'
  IN  /\ focus_motor_state = "BUSY" =>
            IF Abs(rem) < s.focus_pos_precision
            THEN /\ Len(Drives(tx')) = 1
                 /\ DriveSpeed(Drives(tx')[1]) = 0
                 /\ hw_focus_speed' = 0
                 /\ tx'[Len(tx')] = <<focus_motor._id, 4, 31, 1>>
                 /\ ~ focus_motor'._torque_enabled
                 /\ focus_motor_state' = "READY"
                 /\ Has(events', "FOCUS_DONE")
                 /\ ~ Has(events', "FOCUS_MOVING")
            ELSE /\ focus_motor_state' = "BUSY"
                 /\ Len(Drives(tx')) >= 1
                 /\ DriveSpeed(Drives(tx')[1]) = Sign(rem) * s.focus_step_speed
                 /\ Has(events', "FOCUS_MOVING")
                 /\ ~ Has(events', "FOCUS_DONE")
      /\ Has(events', "FOCUS_DONE") =>
            /\ focus_motor_state = "BUSY"
            /\ Abs(rem) < s.focus_pos_precision

\* C2 as stated: on every tick with the focus BUSY, with the position
\* brought up to date: within the precision of the target the tick commands
\* drive speed 0, disables torque, makes the focus READY and emits
\* FOCUS_DONE; otherwise the focus stays BUSY, a drive burst towards the
\* target is issued and FOCUS_MOVING is emitted; FOCUS_DONE is never emitted
\* with the target a precision or more away.
C2_EveryTick == [][TickStep => FocusTickRule]_vars

\* C2, amended: the same, on every tick that finds time has passed since the
\* previous tick (a tick at the same clock reading neither brings the
\* position up to date nor looks at the focus).
C2_TickAfterTimePassed == [][(TickStep /\ TimeElapsed) => FocusTickRule]_vars

\* a tick has found the wheel past the target by less than the precision
\* and has ended the move
C2_Witness ==
  /\ op = "tick"
  /\ events = <<"FOCUS_DONE">>
  /\ focus_motor_state = "READY"
  /\ focus_position > focus_target_position
  /\ ~ focus_motor._torque_enabled

\* the periodic timer fires; if the tick drives the wheel, the wheel turns
\* towards the target by at least one encoder unit and ends up nearer to it
TimerFiresTurning(volts) ==
  \E k \in BurstTurns({-1, 0, 1}) \ {0}, temp \in TempReads, volt \in volts :
    Tick(k, temp, volt)

\* One focus move after another, each left to run to its end: the caller
\* asks for a move only when the focus is READY; it neither resets the
\* position nor shuts down.  Every drive burst brings the wheel nearer to
\* the target.  The periodic timer of the caller keeps firing and the clock
\* keeps advancing.
FocusRunNext ==
  \/ Elapse({MaxElapsed})
  \/ Start(FocusSettings, VoltReads)
  \/ /\ focus_motor_state = "READY"
     /\ FocusTo(FocusMarks)
  \/ TimerFiresTurning(VoltReads)

FocusRunSpec ==
  /\ Init
  /\ [][FocusRunNext]_vars
  /\ WF_vars(TimerFiresTurning(VoltReads))
  /\ WF_vars(Elapse({MaxElapsed}))

\* C3: from a BUSY focus, with no further move_focus or reset and every
\* drive burst turning the wheel towards the target, the ticks eventually
\* make the focus READY; it leaves BUSY only in a tick that emits FOCUS_DONE
\* exactly once and finds the target less than the precision away, and
\* FOCUS_DONE is emitted by no other tick and by no call that is not a tick.
C3_FocusMoveEnds ==
  /\ (focus_motor_state = "BUSY") ~> (focus_motor_state = "READY")
  /\ [][/\ (focus_motor_state = "BUSY" /\ focus_motor_state' # "BUSY") =>
            /\ TickStep
            /\ focus_motor_state' = "READY"
            /\ Len(SelectSeq(events', LAMBDA e : e = "FOCUS_DONE")) = 1
            /\ Abs(focus_target_position - focus_position')
                 < s.focus_pos_precision
        /\ (TickStep /\ Has(events', "FOCUS_DONE")) =>
            /\ focus_motor_state = "BUSY"
            /\ focus_motor_state' = "READY"
        /\ ~ TickStep => (events' = events \/ events' = <<>>)]_vars

\* a move across the whole range has ended with the wheel one encoder unit
\* short of the target
C3_Witness ==
  /\ op = "tick"
  /\ events = <<"FOCUS_DONE">>
  /\ focus_motor_state = "READY"
  /\ focus_target_position = MaxFocus
  /\ focus_position < MaxFocus
  /\ focus_position > MaxFocus - s.focus_pos_precision

\* C10: move_focus(d) while the focus is READY enables torque, sets the
\* target to position + d and makes the focus BUSY; the position stays as it
\* is and nothing but the torque command is sent, the drive being left alone.
C10_MoveWhenReady ==
  [][(CallStep("move_focus") /\ focus_motor_state = "READY") =>
       /\ result' = "ok"
       /\ tx' = << <<focus_motor._id, 4, 31, 0>> >>
       /\ focus_motor'._torque_enabled
       /\ focus_target_position' = focus_position + arg'.n
       /\ focus_motor_state' = "BUSY"
       /\ focus_position' = focus_position
       /\ Drives(tx') = <<>>
       /\ hw_focus_speed' = hw_focus_speed
       /\ hw_focus_angle' = hw_focus_angle]_vars

\* a move has been asked for from READY with the previous target off the
\* position: the new target counts from the position
C10_Witness ==
  /\ op = "move_focus"
  /\ result = "ok"
  /\ tx = << <<focus_motor._id, 4, 31, 0>> >>
  /\ focus_motor_state = "BUSY"
  /\ arg.n # 0
  /\ focus_target_position = focus_position + arg.n
  /\ focus_position # 0

\* C11: move_focus(d) while the focus is UNINITIALIZED raises LogicalError,
\* sends nothing and leaves the focus state, the position and the target as
\* they were.
C11_MoveRefused ==
  [][(CallStep("move_focus") /\ focus_motor_state = "UNINITIALIZED") =>
       /\ result' = "ServoLogicalError"
       /\ tx' = <<>>
       /\ UNCHANGED <<focus_motor_state, focus_position,
                      focus_target_position, focus_motor>>]_vars

\* a move has been refused after a shutdown that left the position counter
\* away from the mark asked for
C11_Witness ==
  /\ op = "move_focus"
  /\ result = "ServoLogicalError"
  /\ focus_motor_state = "UNINITIALIZED"
  /\ arg.n # 0
  /\ focus_position # 0
  /\ tx = <<>>

-----------------------------------------------------------------------------
(* The whole interface of MCTRL, queries and training switch included *)

Asks ==
  \/ IsZoomEnabled
  \/ IsFocusEnabled
  \/ GetFocusPosition
  \/ GetFocusAngle
  \/ \E raw \in ZoomRaw : GetZoomLevel(raw)

Trains == \E in_val \in TrainWords : ToggleTraining(in_val)

FrameNext ==
  \/ Elapse({MaxElapsed})
  \/ Start({DefaultSettings}, {7400})
  \/ Shutdown
  \/ ZoomTo({Rat(1, LevelDen)}, {281})
  \/ TimerFires({0}, {7400})
  \/ FocusTo({20})
  \/ ResetTo(ResetValues)
  \/ Asks
  \/ Trains

FrameSpec == Init /\ [][FrameNext]_vars

\* the operations that C12 says leave both states alone
Bystanders ==
  {"get_zoom_level", "get_focus_position", "get_focus_angle", "reset_focus",
   "is_zoom_enabled", "is_focus_enabled", "toggle_training"}

\* C12: outside initialize and shutdown the focus state changes only in a
\* tick or in move_focus and the zoom state only in a tick or in
\* set_zoom_level; set_zoom_level leaves the focus state alone, move_focus
\* leaves the zoom state alone, and the queries, reset_focus_position and
\* the training switch leave both alone.
C12_StatesFramed ==
  [][/\ focus_motor_state' # focus_motor_state =>
          \/ TickStep
          \/ CallStep("move_focus")
          \/ CallStep("initialize")
          \/ CallStep("shutdown")
     /\ zoom_motor_state' # zoom_motor_state =>
          \/ TickStep
          \/ CallStep("set_zoom")
          \/ CallStep("initialize")
          \/ CallStep("shutdown")
     /\ CallStep("set_zoom") => focus_motor_state' = focus_motor_state
     /\ CallStep("move_focus") => zoom_motor_state' = zoom_motor_state
     /\ (\E o \in Bystanders : CallStep(o)) =>
          /\ focus_motor_state' = focus_motor_state
          /\ zoom_motor_state' = zoom_motor_state]_vars

\* the position counter has been reset while both machines were BUSY, and
\* both still are
C12_Witness ==
  /\ op = "reset_focus"
  /\ result = "ok"
  /\ focus_motor_state = "BUSY"
  /\ zoom_motor_state = "BUSY"
  /\ focus_position = focus_target_position

\* C13: shutdown called before any initialize, or again after a shutdown,
\* completes without raising and leaves both machines UNINITIALIZED.
C13_ShutdownIdempotent ==
  [][(/\ CallStep("shutdown")
      /\ op \in {"none", "shutdown"}) =>
       /\ result' = "ok"
       /\ zoom_motor_state' = "UNINITIALIZED"
       /\ focus_motor_state' = "UNINITIALIZED"]_vars

-----------------------------------------------------------------------------
(* Start-up, shutdown and restart *)

\* how many of the closing reads of initialize the focus device answers
Heards == 0 .. 3

LifeNext ==
  \/ StartHearing(Settings, Heards)
  \/ Shutdown
  \/ IsZoomEnabled
  \/ IsFocusEnabled

LifeSpec == Init /\ [][LifeNext]_vars

\* C14: after an initialize that failed, or one whose settings give the
\* device the id zero, is_zoom_enabled() (is_focus_enabled()) is false.
C14_EnabledOnlyAfterGoodInitialize ==
  [][CallStep("initialize") =>
       /\ (result' # "ok" \/ s'.zoom_motor_id = 0) =>
            zoom_motor_state' = "UNINITIALIZED"
       /\ (result' # "ok" \/ s'.focus_motor_id = 0) =>
            focus_motor_state' = "UNINITIALIZED"]_vars

-----------------------------------------------------------------------------
(* Reading the zoom level *)

\* raw angle words the zoom servo may answer with: the travel in steps of
\* 30 degrees, both sides of the configured ends, and the ends of the
\* signed 16-bit range
ZoomReports ==
  {k * 125 : k \in 0 .. 12} \cup
  {99, 100, 101, 999, 1000, 1001, 1124, 1125, 1126, 32767, 32768, 65534,
   65535}

LevelNext ==
  \/ StartHearing(Settings, {3})
  \/ Shutdown
  \/ ZoomTo({Rat(1, LevelDen)}, {281})
  \/ \E raw \in ZoomReports : GetZoomLevel(raw)

LevelSpec == Init /\ [][LevelNext]_vars

\* (angle - zoom_min_angle) / (zoom_max_angle - zoom_min_angle) for the
\* angle (cd) of raw
LevelOf(raw) ==
  Rat(_from_servo_range(_signed_word(raw)) - s.zoom_min_angle,
      s.zoom_max_angle - s.zoom_min_angle)

\* v is level clamped into [0, 1]
ClampedFrom(v, level) ==
  /\ InRange(v)
  /\ InRange(level) => v = level
  /\ RatLess(level, RatInt(0)) => v = RatInt(0)
  /\ RatLess(RatInt(1), level) => v = RatInt(1)

\* C15: get_zoom_level() returns none exactly when the zoom state is
\* UNINITIALIZED; otherwise it returns the level of the angle the servo
\* reported, clamped into [0, 1].
C15_LevelClamped ==
  [][CallStep("get_zoom_level") =>
       /\ result' = "ok"
       /\ (ret' = <<>>) <=> (zoom_motor_state = "UNINITIALIZED")
       /\ zoom_motor_state # "UNINITIALIZED" =>
            /\ Len(ret') = 1
            /\ \E raw \in ZoomReports : ClampedFrom(ret'[1], LevelOf(raw))
            /\ \A raw \in ZoomReports :
                 GetZoomLevel(raw) => ClampedFrom(ret'[1], LevelOf(raw))]_vars

\* the servo reported an angle below a configured minimum that is not 0,
\* and the level returned is 0
C15_Witness ==
  /\ op = "get_zoom_level"
  /\ zoom_motor_state = "READY"
  /\ s.zoom_min_angle > 0
  /\ ret = <<RatInt(0)>>

-----------------------------------------------------------------------------
(* The focus wheel turned from outside *)

\* encoder readings (units) of the wheel, every 30 degrees of the turn, 0
\* and 360 degrees both included
WheelMarks == {k * 125 : k \in 0 .. 12}

\* the wheel is turned to the reading a between two operations, by hand or
\* by its load; nothing in the controller changes
WheelTurned(a) ==
  /\ Abs(focus_position) <= MaxFocus
  /\ hw_focus_angle' = a
  /\ UNCHANGED <<ctrlvars, hw_focus_speed, op, arg, result, events, tx, ret,
                 train_state, rx, decoded, servo>>

WheelNext ==
  \/ Elapse({MaxElapsed})
  \/ Start(FocusSettings, {7400})
  \/ \E a \in WheelMarks : WheelTurned(a)
  \/ TimerFires({0}, {7400})

WheelSpec == Init /\ [][WheelNext]_vars

\* C16: the angular delta a tick computes from the previous angle p and the
\* new angle n, both in 0 .. 360 degrees, is congruent to n - p modulo 360
\* degrees and no larger than 180 degrees in magnitude (350 to 5 degrees
\* gives +15, 5 to 350 gives -15); the position counter grows by exactly
\* this delta.
C16_ShortestTurn ==
  [][(TickStep /\ TimeElapsed /\ focus_motor_state # "UNINITIALIZED") =>
       LET prev == focus_motor_last_known_angle
           new == get_physical_angle(hw_focus_angle)
           delta == focus_position' - focus_position
       IN  /\ prev \in 0 .. 36000
           /\ new \in 0 .. 36000
           /\ (delta - (new - prev)) % 36000 = 0
           /\ Abs(delta) <= 18000
           /\ focus_motor_last_known_angle' = new
           /\ AngleChange(35000, 500) = 1500
           /\ AngleChange(500, 35000) = -1500]_vars

\* a tick has followed the wheel backwards through zero, from 0 to 330
\* degrees: the counter went down by 30 degrees
C16_Witness ==
  /\ op = "tick"
  /\ focus_motor_state = "READY"
  /\ focus_motor_last_known_angle = 33000
  /\ focus_position = -3000

-----------------------------------------------------------------------------
(* Answers of a device on the wire (hx35.py 85-133).  A frame is            *)
(* 0x55 0x55 id length command parameters checksum.                         *)

\* sum of the bytes of seq from index i on
RECURSIVE SumFrom(_, _)
SumFrom(seq, i) == IF i > Len(seq) THEN 0 ELSE seq[i] + SumFrom(seq, i + 1)

\* a checksum that sums the header bytes too
ChecksumWithHeader(packet) == (-(SumFrom(packet, 1)) - 1) % 256

\* ~sum(packet[2:]) % 256: the two header bytes are left out of the sum
_checksum(packet) == (-(SumFrom(packet, 3)) - 1) % 256

\* _send_packet(packet): the bytes written to the bus
_send_packet(packet) ==
  LET framed == <<85, 85>> \o packet
  IN  framed \o <<_checksum(framed)>>

\* a header test that accepts 0x55 0x55 alone
HeaderNot5555(b0, b1) == ~ (b0 = 85 /\ b1 = 85)

\* received[0] != received[1] != 0x55, a chained comparison: the first byte
\* differs from the second and the second differs from 0x55
HeaderRejected(b0, b1) == b0 # b1 /\ b1 # 85

\* a length test that lets shorter frames through
LengthAtMost(pkt_len, num_bytes) == pkt_len > num_bytes + 3

\* pkt_len != num_bytes + 3
LengthRejected(pkt_len, num_bytes) == pkt_len # num_bytes + 3

\* _read_packet(num_bytes, servo_id) with buf waiting in the input buffer
\* when the serial timeout ends: what it asked for, what it received, what
\* stays in the buffer, the error it raises and the parameters it returns
_read_packet(num_bytes, buf) ==
  LET asked == num_bytes + 6
      received == SubSeq(buf, 1, Min(asked, Len(buf)))
      rest == SubSeq(buf, Len(received) + 1, Len(buf))
      Outcome(err, why, params) ==
        [asked |-> asked, received |-> received, rest |-> rest, err |-> err,
         why |-> why, params |-> params]
  IN  IF Len(received) < asked
      THEN Outcome("ServoTimeoutError", "short read", <<>>)
      ELSE IF HeaderRejected(received[1], received[2])
      THEN Outcome("ServoLogicalError", "invalid packet header", <<>>)
      ELSE IF LengthRejected(received[4], num_bytes)
      THEN Outcome("ServoLogicalError", "invalid packet length", <<>>)
      ELSE IF _checksum(SubSeq(received, 1, asked - 1)) # received[asked]
      THEN Outcome("ServoChecksumError", "bad checksum", <<>>)
      ELSE Outcome("ok", "none", SubSeq(received, 6, asked - 1))

\* parameter counts the proxy reads (1, 2 and 4 in hx35.py)
ReadSizes == {1, 2}

\* values of a header byte: 0x55, its neighbour and zero
HeaderBytes == {0, 84, 85}

\* parameter bytes of an answer of n parameters
Payloads(n) == IF n = 1 THEN {<<0>>, <<25>>} ELSE {<<0, 0>>, <<44, 1>>}

\* the frame with the given fields; sum is what is added to the right
\* checksum
Frame(b0, b1, pkt_len, params, sum) ==
  LET body == <<b0, b1, 1, pkt_len, 28>> \o params
  IN  body \o <<(_checksum(body) + sum) % 256>>

\* what may come back to a read of n parameters: frames right or wrong in
\* the header, the length byte and the checksum, and a line of zero bytes
Answers(n) ==
  {Frame(b0, b1, pkt_len, params, sum) :
     b0 \in HeaderBytes, b1 \in HeaderBytes, pkt_len \in {n + 2, n + 3},
     params \in Payloads(n), sum \in {0, 1}}
  \cup {[i \in 1 .. n + 6 |-> 0]}

\* bytes come in on the serial line while the input buffer is empty: an
\* answer to a read of n parameters, its last cut bytes lost, stale bytes
\* after it
Arrives(frame, cut, stale) ==
  /\ rx = <<>>
  /\ rx' = SubSeq(frame, 1, Len(frame) - cut) \o stale
  /\ UNCHANGED <<ctrlvars, hw_focus_angle, hw_focus_speed, op, arg, result,
                 events, tx, ret, train_state, decoded, servo>>

\* a call of HX35._read_packet(num_bytes, servo_id)
Reads(num_bytes) ==
  LET d == _read_packet(num_bytes, rx)
  IN  /\ op' = "read_packet"
      /\ arg' = RatInt(num_bytes)
      /\ events' = <<>>
      /\ tx' = <<>>
      /\ result' = d.err
      /\ ret' = IF d.err = "ok" THEN <<d.params>> ELSE <<>>
      /\ decoded' = d
      /\ rx' = d.rest
      /\ UNCHANGED <<ctrlvars, hw_focus_angle, hw_focus_speed, train_state,
                     servo>>

CodecNext ==
  \/ \E n \in ReadSizes, cut \in {0, 1}, stale \in {<<>>, <<85>>} :
       \E frame \in Answers(n) : Arrives(frame, cut, stale)
  \/ \E num_bytes \in ReadSizes : Reads(num_bytes)

CodecSpec == Init /\ [][CodecNext]_vars

\* this step is a read of n parameters: bytes arriving leave op alone and
\* make the input buffer longer, a read never does
ReadStep(n) ==
  /\ CallStep("read_packet")
  /\ arg'.n = n
  /\ Len(rx') <= Len(rx)

\* this step is a read of n parameters that found at least n + 6 bytes
FullRead(n) == ReadStep(n) /\ Len(rx) >= n + 6

\* the bytes the read takes are all zero
AllZero(n) == \A i \in 1 .. n + 6 : rx[i] = 0

\* C17: a full-length answer of zero bytes only fails with TimeoutError
\* "not responding", not with a framing, length or checksum error and not
\* with the TimeoutError of a short read.
C17_ZerosNotResponding ==
  [][\A n \in ReadSizes :
       (FullRead(n) /\ AllZero(n)) =>
         /\ result' = "ServoTimeoutError"
         /\ decoded'.why = "not responding"]_vars

\* the frame the read takes has the right length byte and the right
\* checksum for a read of n parameters
LengthAndSumValid(n) ==
  /\ rx[4] = n + 3
  /\ rx[n + 6] = _checksum(SubSeq(rx, 1, n + 5))

\* C18: a full-length frame whose header bytes are not both 0x55, with the
\* length byte and the checksum otherwise valid, fails with a framing error
\* and returns no parameters.
C18_HeaderMust5555 ==
  [][\A n \in ReadSizes :
       (FullRead(n) /\ HeaderNot5555(rx[1], rx[2]) /\ LengthAndSumValid(n)) =>
         /\ result' = "ServoLogicalError"
         /\ decoded'.why = "invalid packet header"
         /\ ret' = <<>>]_vars

\* C19: a full-length frame with valid header and length and a wrong
\* checksum byte fails with ChecksumError, and the serial input buffer is
\* empty when the error is raised.
C19_ChecksumFlushes ==
  [][\A n \in ReadSizes :
       (/\ FullRead(n)
        /\ rx[1] = 85 /\ rx[2] = 85
        /\ rx[4] = n + 3
        /\ rx[n + 6] # _checksum(SubSeq(rx, 1, n + 5))) =>
         /\ result' = "ServoChecksumError"
         /\ rx' = <<>>]_vars

-----------------------------------------------------------------------------
(* The reads of the proxy (hx35.py 367-485).  Each takes the poll_hardware  *)
(* flag and what the device answers if polled, and gives back the value     *)
(* returned as val: <<v>>, or <<>> for None.                                *)

Gives(m, out, v) == [m |-> m, out |-> out, err |-> "ok", val |-> <<v>>]

_signed_byte(val) == IF val < 128 THEN val ELSE val - 256

get_id(m, poll_hardware, byte) ==
  IF ~ poll_hardware THEN Gives(m, <<>>, m._id)
  ELSE Gives(m, ReadPacket(m, 14), byte)

\* returns a rational number of cd
get_angle_offset(m, poll_hardware, word) ==
  IF ~ poll_hardware
  THEN Gives(m, <<>>, RatInt(_from_servo_range(m._angle_offset)))
  ELSE Gives(m, ReadPacket(m, 19), PolledAngleOffset(word))

get_angle_limits(m, poll_hardware, words) ==
  IF ~ poll_hardware
  THEN Gives(m, <<>>, <<_from_servo_range(m._angle_limits[1]),
                        _from_servo_range(m._angle_limits[2])>>)
  ELSE Gives(m, ReadPacket(m, 21), <<_from_servo_range(words[1]),
                                     _from_servo_range(words[2])>>)

get_vin_limits(m, poll_hardware, words) ==
  IF ~ poll_hardware THEN Gives(m, <<>>, m._vin_limits)
  ELSE Gives(m, ReadPacket(m, 23), words)

get_temp_limit(m, poll_hardware, byte) ==
  IF ~ poll_hardware THEN Gives(m, <<>>, m._temp_limit)
  ELSE Gives(m, ReadPacket(m, 25), _signed_byte(byte))

is_motor_mode(m, poll_hardware, byte) ==
  IF ~ poll_hardware THEN Gives(m, <<>>, m._motor_mode)
  ELSE Gives(m, ReadPacket(m, 30), byte = 1)

\* the device answers the mode byte and the speed word
get_motor_speed(m, poll_hardware, byte, word) ==
  IF ~ m._motor_mode THEN Raise(m, "ServoLogicalError")
  ELSE IF ~ poll_hardware
  THEN [m |-> m, out |-> <<>>, err |-> "ok", val |-> m._motor_speed]
  ELSE [m |-> m, out |-> ReadPacket(m, 30), err |-> "ok",
        val |-> IF byte = 1 THEN <<_signed_word(word)>> ELSE <<>>]

is_torque_enabled(m, poll_hardware, byte) ==
  IF ~ poll_hardware THEN Gives(m, <<>>, m._torque_enabled)
  ELSE Gives(m, ReadPacket(m, 32), byte = 1)

is_led_power_on(m, poll_hardware, byte) ==
  IF ~ poll_hardware THEN Gives(m, <<>>, m._led_powered)
  ELSE Gives(m, ReadPacket(m, 34), byte = 0)

get_led_error_triggers(m, poll_hardware, byte) ==
  IF ~ poll_hardware THEN Gives(m, <<>>, m._led_error_triggers)
  ELSE Gives(m, ReadPacket(m, 36),
             <<byte % 2 # 0, (byte \div 2) % 2 # 0, (byte \div 4) % 2 # 0>>)

\* the reads that have no cached value: the angle in cd and the time in ms
get_last_instant_move_hw(m, word, time) ==
  Gives(m, ReadPacket(m, 2), <<_from_servo_range(word), time>>)

get_last_delayed_move_hw(m, word, time) ==
  Gives(m, ReadPacket(m, 8), <<_from_servo_range(word), time>>)

get_temp(m, byte) == Gives(m, ReadPacket(m, 26), _signed_byte(byte))

\* in volts
get_vin(m, word) == Gives(m, ReadPacket(m, 27), Rat(word, 1000))

\* get_physical_angle() as an operation of the proxy
ReadPhysicalAngle(m, raw) ==
  Gives(m, ReadPacket(m, 28), get_physical_angle(raw))

get_commanded_angle(m) == Gives(m, <<>>, _from_servo_range(m._commanded_angle))

get_waiting_angle(m) ==
  IF ~ m._waiting_for_move THEN Raise(m, "ServoLogicalError")
  ELSE Gives(m, <<>>, _from_servo_range(m._waiting_angle))

-----------------------------------------------------------------------------
(* A caller driving one proxy directly *)

\* the caller runs operation o with the arguments args on the proxy; r is
\* what the operation gives
ServoDoes(o, args, r) ==
  /\ op' = o
  /\ arg' = args
  /\ events' = <<>>
  /\ result' = r.err
  /\ tx' = r.out
  /\ servo' = r.m
  /\ ret' = IF r.err = "ok" /\ "val" \in DOMAIN r THEN r.val ELSE <<>>
  /\ UNCHANGED <<ctrlvars, hw_focus_angle, hw_focus_speed, train_state, rx,
                 decoded>>

\* HX35(id_) on a device answering poll; a failed construction leaves the
\* caller with the proxy it had
Attach(id_, poll) ==
  LET r == HX35New(id_, poll)
  IN  ServoDoes("HX35", <<id_>>, IF r.err = "ok" THEN r ELSE Raise(servo, r.err))

\* this operation is run on a proxy that exists
OnServo(o, args, r) == servo.attached /\ ServoDoes(o, args, r)

\* what the devices answer to the constructor's polls: a servo at rest at
\* 0, and one found in motor mode at speed 500, away from 0, with a
\* narrower travel and an angle offset
AtRest == HwPoll(0, FALSE)

Spinning ==
  [HwPoll(500, TRUE) EXCEPT !.speed = 500, !.limits = <<100, 1000>>,
                            !.offset = 10, !.torque = TRUE,
                            !.led_powered = FALSE]

\* the commanded angle (units) up to which the caller asks for relative
\* moves
MaxCommanded == 1500

Attaches(ids, polls) == \E id_ \in ids, poll \in polls : Attach(id_, poll)

SetsTorque ==
  \/ OnServo("enable_torque", <<>>, enable_torque(servo))
  \/ OnServo("disable_torque", <<>>, disable_torque(servo))

SetsMode(speeds) ==
  \/ OnServo("servo_mode", <<>>, servo_mode(servo))
  \/ \E speed \in speeds :
       OnServo("motor_mode", <<speed>>, motor_mode(servo, speed))

SetsAngleLimits(limits) ==
  \E l \in limits :
    OnServo("set_angle_limits", l, set_angle_limits(servo, l[1], l[2]))

SetsOthers(offsets, vins, temps, ids) ==
  \/ \E offset \in offsets, permanent \in BOOLEAN :
       OnServo("set_angle_offset", <<offset, permanent>>,
               set_angle_offset(servo, offset, permanent))
  \/ \E l \in vins :
       OnServo("set_vin_limits", l, set_vin_limits(servo, l[1], l[2]))
  \/ \E upper_limit \in temps :
       OnServo("set_temp_limit", <<upper_limit>>,
               set_temp_limit(servo, upper_limit))
  \/ \E id_ \in ids : OnServo("set_id", <<id_>>, set_id(servo, id_))

\* move(angle, time, relative, wait), angle in cd; the caller asks for
\* relative moves while the commanded angle is at most upto
Moves4(angles, times, upto) ==
  \E angle \in angles, time \in times, relative \in BOOLEAN,
     wait \in BOOLEAN :
    /\ relative => servo._commanded_angle <= upto
    /\ OnServo("move", <<angle, time, relative, wait>>,
               MoveTo(servo, RatInt(angle), time, relative, wait))

StartsMove == OnServo("move_start", <<>>, move_start(servo))

StopsMove(raws) ==
  \E raw \in raws : OnServo("move_stop", <<>>, move_stop(servo, raw))

\* the reads, from the cache and from a device answering the bytes and
\* words given
ReadsServo(bytes, words) ==
  \E poll_hardware \in BOOLEAN, byte \in bytes, word \in words,
     word2 \in words :
    \/ OnServo("get_id", <<poll_hardware>>,
               get_id(servo, poll_hardware, byte))
    \/ OnServo("get_angle_offset", <<poll_hardware>>,
               get_angle_offset(servo, poll_hardware, word))
    \/ OnServo("get_angle_limits", <<poll_hardware>>,
               get_angle_limits(servo, poll_hardware, <<word, word2>>))
    \/ OnServo("get_vin_limits", <<poll_hardware>>,
               get_vin_limits(servo, poll_hardware, <<word, word2>>))
    \/ OnServo("get_temp_limit", <<poll_hardware>>,
               get_temp_limit(servo, poll_hardware, byte))
    \/ OnServo("is_motor_mode", <<poll_hardware>>,
               is_motor_mode(servo, poll_hardware, byte))
    \/ OnServo("get_motor_speed", <<poll_hardware>>,
               get_motor_speed(servo, poll_hardware, byte, word))
    \/ OnServo("is_torque_enabled", <<poll_hardware>>,
               is_torque_enabled(servo, poll_hardware, byte))
    \/ OnServo("is_led_power_on", <<poll_hardware>>,
               is_led_power_on(servo, poll_hardware, byte))
    \/ OnServo("get_led_error_triggers", <<poll_hardware>>,
               get_led_error_triggers(servo, poll_hardware, byte))

\* the reads of what the device measures and of the two angles the proxy
\* keeps
Measures(bytes, words) ==
  \E byte \in bytes, word \in words :
    \/ OnServo("get_last_instant_move_hw", <<>>,
               get_last_instant_move_hw(servo, word, word))
    \/ OnServo("get_last_delayed_move_hw", <<>>,
               get_last_delayed_move_hw(servo, word, word))
    \/ OnServo("get_temp", <<>>, get_temp(servo, byte))
    \/ OnServo("get_vin", <<>>, get_vin(servo, word))
    \/ OnServo("get_physical_angle", <<>>, ReadPhysicalAngle(servo, word))
    \/ OnServo("get_commanded_angle", <<>>, get_commanded_angle(servo))
    \/ OnServo("get_waiting_angle", <<>>, get_waiting_angle(servo))

\* every operation of the proxy, each with one or two arguments
ProxyNext ==
  \/ Attaches({1}, {Spinning})
  \/ SetsTorque
  \/ SetsMode({-500})
  \/ SetsAngleLimits({<<2400, 24000>>})
  \/ SetsOthers({-1000}, {<<6000, 9000>>}, {50}, {7})
  \/ Moves4({24000}, {0}, 500)
  \/ StartsMove
  \/ StopsMove({65534})
  \/ ReadsServo({1}, {1000})
  \/ Measures({200}, {1000})

ProxySpec == Init /\ [][ProxyNext]_vars

\* the bytes on the bus for a packet form 0x55, 0x55, address, length,
\* command, params..., checksum
WellFormed(packet) ==
  LET wire == _send_packet(packet)
      n == Len(wire) - 6
  IN  /\ Len(packet) >= 3
      /\ FitsBytes(wire)
      /\ wire[1] = 85 /\ wire[2] = 85
      /\ wire[4] = n + 3
      /\ wire[Len(wire)] = 255 - ((SumFrom(packet, 1)) % 256)
      /\ SumFrom(wire, 3) % 256 = 255
      /\ _read_packet(n, wire).err = "ok"
      /\ _read_packet(n, wire).params = SubSeq(packet, 4, Len(packet))

\* C21: every packet a proxy operation transmits is 0x55, 0x55, address,
\* length, command, params..., checksum with length = number of parameter
\* bytes + 3 and the bytes after the header, checksum included, summing to
\* 255 modulo 256; decoding its bytes returns the parameters unchanged
C21_PacketsWellFormed ==
  \A i \in 1 .. Len(tx) : WellFormed(tx[i])

\* a move has sent a packet with four parameter bytes
C21_Witness ==
  /\ op = "move" /\ result = "ok"
  /\ Len(tx) = 1 /\ Len(tx[1]) = 7 /\ tx[1][4] # 0

-----------------------------------------------------------------------------
(* The writes and the reads of the shadow, with arguments inside and        *)
(* outside the documented ranges.                                           *)

ShadowNext ==
  \/ Attaches({-1, 1, 254}, {AtRest, Spinning})
  \/ SetsTorque
  \/ SetsMode({-1001, -500, 1001})
  \/ SetsAngleLimits({<<1000, 500>>, <<-100, 100>>, <<0, 36100>>,
                      <<2400, 24000>>})
  \/ SetsOthers({-3100, -1000, 3100},
                {<<4000, 12000>>, <<4500, 12001>>, <<9000, 6000>>,
                 <<6000, 9000>>},
                {49, 50, 101}, {-1, 7, 254})
  \/ ReadsServo({0, 1}, {10, 1000})

ShadowSpec == Init /\ [][ShadowNext]_vars

\* the documented ranges: address 0..253, angle offset -30..30 degrees,
\* angle limits 0..360 degrees with lower <= upper, voltage limits
\* 4500..12000 mV with lower <= upper, temperature limit 50..100, motor
\* speed -1000..1000
OutOfRange(o, a) ==
  \/ o \in {"HX35", "set_id"} /\ a[1] \notin 0 .. 253
  \/ o = "set_angle_offset" /\ a[1] \notin -3000 .. 3000
  \/ o = "set_angle_limits"
     /\ (a[1] \notin 0 .. 36000 \/ a[2] \notin 0 .. 36000 \/ a[2] < a[1])
  \/ o = "set_vin_limits"
     /\ (a[1] \notin 4500 .. 12000 \/ a[2] \notin 4500 .. 12000
         \/ a[2] < a[1])
  \/ o = "set_temp_limit" /\ a[1] \notin 50 .. 100
  \/ o = "motor_mode" /\ a[1] \notin -1000 .. 1000

\* C22 as stated: every call with an out-of-range argument fails with
\* ArgumentError, transmits nothing and leaves the shadow unchanged
C22_BadArgumentIsArgumentError ==
  [][OutOfRange(op', arg')
     => /\ result' = "ServoArgumentError"
        /\ tx' = <<>>
        /\ servo' = servo]_vars

\* C22: a call with an out-of-range argument transmits nothing and leaves
\* the shadow unchanged; it fails with ArgumentError, except that
\* motor_mode called while torque is disabled fails with LogicalError
C22_BadArgumentNeverSent ==
  [][OutOfRange(op', arg')
     => /\ result' = (IF op' = "motor_mode" /\ ~ servo._torque_enabled
                      THEN "ServoLogicalError" ELSE "ServoArgumentError")
        /\ tx' = <<>>
        /\ servo' = servo]_vars

\* set_angle_limits(10, 5) has failed on a constructed proxy
C22_Witness ==
  /\ servo.attached
  /\ op = "set_angle_limits" /\ arg = <<1000, 500>>
  /\ result = "ServoArgumentError" /\ tx = <<>>

-----------------------------------------------------------------------------
(* Moves of one proxy: absolute and relative, at once and deferred, with    *)
(* torque switched on and off, in servo and in motor mode, under the full   *)
(* travel and under a narrower one.                                         *)

MoveAngles == {-2400, 0, 12000, 24000, 36100}

MoveNext ==
  \/ Attaches({1}, {AtRest, Spinning})
  \/ SetsTorque
  \/ SetsMode({0})
  \/ SetsAngleLimits({<<0, 36000>>, <<2400, 24000>>})
  \/ Moves4(MoveAngles, {1000}, MaxCommanded)
  \/ StartsMove
  \/ StopsMove({500})

MoveSpec == Init /\ [][MoveNext]_vars

\* the angles the proxy keeps are left as they were
AnglesKept ==
  /\ servo'._commanded_angle = servo._commanded_angle
  /\ servo'._waiting_angle = servo._waiting_angle
  /\ servo'._waiting_for_move = servo._waiting_for_move

\* C23: move called while the torque flag is disabled or the proxy is in
\* motor mode fails with LogicalError whatever the angle, transmits nothing
\* and changes neither the commanded nor the pending angle
C23_MoveRefusedWithoutTorqueOrInMotorMode ==
  [][op' = "move" /\ (~ servo._torque_enabled \/ servo._motor_mode)
     => /\ result' = "ServoLogicalError"
        /\ tx' = <<>>
        /\ AnglesKept]_vars

\* a move to an angle outside 0..360 degrees has been refused in motor mode
\* with torque enabled
C23_Witness ==
  /\ op = "move" /\ arg[1] = 36100 /\ result = "ServoLogicalError"
  /\ servo._motor_mode /\ servo._torque_enabled

\* a valid move has been refused for torque being disabled
C23_WitnessTorque ==
  /\ op = "move" /\ arg[1] = 12000 /\ result = "ServoLogicalError"
  /\ ~ servo._motor_mode /\ ~ servo._torque_enabled

\* the target of the move packet in tx, in units
TargetOf(packet) == packet[4] + 256 * packet[5]

\* units within 0..1500 and within the limits the proxy keeps
WithinTravel(m, units) ==
  /\ units \in 0 .. 1500
  /\ units >= m._angle_limits[1] /\ units <= m._angle_limits[2]

\* what a relative move of angle cd resolves to, in units
Resolved(m, angle) == _to_servo_range(RatInt(angle)) + m._commanded_angle

\* C24: a relative move is validated on the resolved target (offset + last
\* commanded angle): one that succeeds transmits a target within 0..1500
\* units and within the configured limits, and one whose resolved target is
\* outside them fails with ArgumentError without transmitting
C24_RelativeTargetValidated ==
  [][op' = "move" /\ arg'[3] /\ servo._torque_enabled /\ ~ servo._motor_mode
     => /\ result' = "ok"
           => Len(tx') = 1 /\ WithinTravel(servo, TargetOf(tx'[1]))
        /\ ~ WithinTravel(servo, Resolved(servo, arg'[1]))
           => result' = "ServoArgumentError" /\ tx' = <<>>]_vars

\* the target move computes from its arguments <<angle, time, relative,
\* wait>>, in units
Computed(m, a) ==
  IF a[3] THEN Resolved(m, a[1]) ELSE _to_servo_range(RatInt(a[1]))

\* the angle field a move with arguments a records its target in
Recorded(m, a) == IF a[4] THEN m._waiting_angle ELSE m._commanded_angle

\* C25: no successful move transmits a target of 0 units: a computed
\* target of exactly 0 is transmitted, and recorded as the commanded or
\* pending angle, as 2, and a non-zero computed target is transmitted and
\* recorded unchanged
C25_ZeroTargetSentAsTwo ==
  [][op' = "move" /\ result' = "ok"
     => /\ Len(tx') = 1
        /\ TargetOf(tx'[1]) # 0
        /\ TargetOf(tx'[1]) =
             (IF Computed(servo, arg') = 0 THEN 2 ELSE Computed(servo, arg'))
        /\ Recorded(servo', arg') = TargetOf(tx'[1])]_vars

\* a deferred relative move of 0 from 0 has been sent and recorded as 2
C25_Witness ==
  /\ op = "move" /\ result = "ok"
  /\ arg[1] = 0 /\ arg[3] /\ arg[4]
  /\ Len(tx) = 1 /\ TargetOf(tx[1]) = 2
  /\ servo._waiting_angle = 2 /\ servo._commanded_angle = 0

\* C26: a successful deferred move records its target as the pending angle
\* only and marks the proxy as waiting; move_start then makes the pending
\* angle the commanded one and clears the mark; move_start with no deferred
\* move staged (none since construction, or none since the last arming)
\* fails with LogicalError, transmits nothing and leaves the commanded
\* angle as it was
C26_DeferredMoveProtocol ==
  [][/\ op' = "HX35" /\ result' = "ok" => ~ servo'._waiting_for_move
     /\ op' = "move" /\ arg'[4] /\ result' = "ok"
        => /\ servo'._commanded_angle = servo._commanded_angle
           /\ servo'._waiting_angle = TargetOf(tx'[1])
           /\ servo'._waiting_for_move
     /\ op' = "move_start" /\ result' = "ok"
        => /\ servo._waiting_for_move
           /\ servo'._commanded_angle = servo._waiting_angle
           /\ ~ servo'._waiting_for_move
     /\ op' = "move_start" /\ ~ servo._waiting_for_move
        => /\ result' = "ServoLogicalError"
           /\ tx' = <<>>
           /\ servo'._commanded_angle = servo._commanded_angle]_vars

\* a deferred move to 240 degrees has been armed
C26_Witness ==
  /\ op = "move_start" /\ result = "ok" /\ tx = << <<1, 3, 11>> >>
  /\ servo._commanded_angle = 1000 /\ servo._waiting_angle = 1000
  /\ ~ servo._waiting_for_move

\* arming has been refused with nothing staged, torque enabled, in servo
\* mode
C26_WitnessRefused ==
  /\ op = "move_start" /\ result = "ServoLogicalError" /\ tx = <<>>
  /\ ~ servo._waiting_for_move
  /\ servo._torque_enabled /\ ~ servo._motor_mode

\* two angles in cd no more than one unit (0.24 degrees) apart
WithinOneUnit(a, b) == ~ RatLess(RatInt(24), RatAbs(RatSub(a, b)))

\* what the read gives from the cache of proxy m
Cached(read) == read.val[1]

\* C27: after a successful write the cached read of the same setting
\* returns the value just written: the angle offset and the angle limits
\* within one unit, the voltage limits, the temperature limit, the mode and
\* the motor speed, the torque flag and the address exactly
C27_CachedReadReturnsWritten ==
  [][result' = "ok" =>
     /\ op' = "set_angle_offset"
        => WithinOneUnit(Cached(get_angle_offset(servo', FALSE, 0)),
                         RatInt(arg'[1]))
     /\ op' = "set_angle_limits"
        => /\ WithinOneUnit(
                RatInt(Cached(get_angle_limits(servo', FALSE, <<0, 0>>))[1]),
                RatInt(arg'[1]))
           /\ WithinOneUnit(
                RatInt(Cached(get_angle_limits(servo', FALSE, <<0, 0>>))[2]),
                RatInt(arg'[2]))
     /\ op' = "set_vin_limits"
        => Cached(get_vin_limits(servo', FALSE, <<0, 0>>)) = arg'
     /\ op' = "set_temp_limit"
        => Cached(get_temp_limit(servo', FALSE, 0)) = arg'[1]
     /\ op' = "motor_mode"
        => /\ Cached(is_motor_mode(servo', FALSE, 0))
           /\ get_motor_speed(servo', FALSE, 0, 0).val = <<arg'[1]>>
     /\ op' = "servo_mode" => ~ Cached(is_motor_mode(servo', FALSE, 0))
     /\ op' = "enable_torque" => Cached(is_torque_enabled(servo', FALSE, 0))
     /\ op' = "disable_torque"
        => ~ Cached(is_torque_enabled(servo', FALSE, 0))
     /\ op' = "set_id" => Cached(get_id(servo', FALSE, 0)) = arg'[1]]_vars

\* the reads that keep a cached value besides the address
CachedReads ==
  {"get_angle_offset", "get_angle_limits", "get_vin_limits",
   "get_temp_limit", "is_motor_mode", "get_motor_speed",
   "is_torque_enabled", "is_led_power_on", "get_led_error_triggers"}

\* read o of proxy m with poll_hardware = False
FromCache(o, m) ==
  CASE o = "get_angle_offset" -> get_angle_offset(m, FALSE, 0)
    [] o = "get_angle_limits" -> get_angle_limits(m, FALSE, <<0, 0>>)
    [] o = "get_vin_limits" -> get_vin_limits(m, FALSE, <<0, 0>>)
    [] o = "get_temp_limit" -> get_temp_limit(m, FALSE, 0)
    [] o = "is_motor_mode" -> is_motor_mode(m, FALSE, 0)
    [] o = "get_motor_speed" -> get_motor_speed(m, FALSE, 0, 0)
    [] o = "is_torque_enabled" -> is_torque_enabled(m, FALSE, 0)
    [] o = "is_led_power_on" -> is_led_power_on(m, FALSE, 0)
    [] o = "get_led_error_triggers" -> get_led_error_triggers(m, FALSE, 0)

\* C28: after a read with the live-poll flag has returned a value from the
\* hardware, the same read with the cached flag returns that value
C28_PolledReadUpdatesCache ==
  [][op' \in CachedReads /\ arg'[1] /\ result' = "ok"
     => /\ FromCache(op', servo').err = "ok"
        /\ FromCache(op', servo').val = ret']_vars

-----------------------------------------------------------------------------
(* The two conversions between degrees and units, applied one after the     *)
(* other to an angle of the grid 0, 0.01, .. 360 degrees and to a unit of   *)
(* 0 .. 1500.                                                               *)

AngleGrid == 0 .. 36000

UnitGrid == 0 .. 1500

\* _from_servo_range(_to_servo_range(a)) for an angle a in cd
AngleRoundTrip(a) ==
  /\ op' = "angle_round_trip"
  /\ arg' = <<a>>
  /\ ret' = <<_from_servo_range(_to_servo_range(RatInt(a)))>>
  /\ UNCHANGED <<ctrlvars, hw_focus_angle, hw_focus_speed, result, events,
                 tx, train_state, rx, decoded, servo>>

\* _to_servo_range(_from_servo_range(u)) for a unit u
UnitRoundTrip(u) ==
  /\ op' = "unit_round_trip"
  /\ arg' = <<u>>
  /\ ret' = <<_to_servo_range(RatInt(_from_servo_range(u)))>>
  /\ UNCHANGED <<ctrlvars, hw_focus_angle, hw_focus_speed, result, events,
                 tx, train_state, rx, decoded, servo>>

\* one conversion there and back, of one angle or of one unit
UnitsNext ==
  /\ op = "none"
  /\ \/ \E a \in AngleGrid : AngleRoundTrip(a)
     \/ \E u \in UnitGrid : UnitRoundTrip(u)

UnitsSpec == Init /\ [][UnitsNext]_vars

\* C29: for every angle a of the grid in 0..360 degrees the angle got back
\* from the units of a differs from a by less than one unit (0.24
\* degrees), and for every unit u in 0..1500 the units of the angle of u
\* are u
C29_ConversionsRoundTrip ==
  /\ op = "angle_round_trip" => Abs(ret[1] - arg[1]) < 24
  /\ op = "unit_round_trip" => ret[1] = arg[1]

\* 0.12 degrees, halfway between two units, has been converted there and
\* back
C29_Witness ==
  op = "angle_round_trip" /\ arg = <<12>> /\ ret = <<0>>

\* unit 1500 has been converted there and back
C29_WitnessUnits ==
  op = "unit_round_trip" /\ arg = <<1500>> /\ ret = <<1500>>

-----------------------------------------------------------------------------
(* The tick and the focus position *)

\* The wheel turned by hand and by focus moves, the timer firing all along.
TrackNext ==
  \/ Elapse({MaxElapsed})
  \/ Start(FocusSettings, {7400})
  \/ \E a \in WheelMarks : WheelTurned(a)
  \/ TimerFires({0}, {7400})
  \/ FocusTo({20})

TrackSpec == Init /\ [][TrackNext]_vars

\* the packet is one of the read requests a tick sends to the focus motor:
\* temperature, voltage, angle
FocusPoll(packet) ==
  /\ packet[1] = focus_motor._id
  /\ packet[2] = 3
  /\ packet[3] \in {26, 27, 28}

\* the packet is the zoom motor's torque being disabled at its deadline
ZoomRelease(packet) ==
  zoom_motor.attached /\ packet = <<zoom_motor._id, 4, 31, 1>>

FocusEvents == {"FOCUS_DONE", "FOCUS_MOVING"}

\* C30: a tick after time has passed, with the focus READY or BUSY, adds to
\* the position the circular delta from the stored angle to the angle it
\* reads and stores that angle; with the focus READY it emits no focus
\* event and sends the focus motor nothing but reads; with the focus
\* UNINITIALIZED it exchanges nothing with a focus motor and leaves the
\* position as it was
C30_TickTracksFocusWheel ==
  [][TickStep /\ TimeElapsed =>
       LET prev == focus_motor_last_known_angle
           new == get_physical_angle(hw_focus_angle)
           delta == focus_position' - focus_position
       IN  /\ focus_motor_state \in {"READY", "BUSY"}
              => /\ (delta - (new - prev)) % 36000 = 0
                 /\ Abs(delta) <= 18000
                 /\ focus_motor_last_known_angle' = new
                 /\ \E i \in 1 .. Len(tx') : tx'[i] = <<focus_motor._id, 3, 28>>
           /\ focus_motor_state = "READY"
              => /\ \A i \in 1 .. Len(events') : events'[i] \notin FocusEvents
                 /\ \A i \in 1 .. Len(tx') :
                      FocusPoll(tx'[i]) \/ ZoomRelease(tx'[i])
                 /\ focus_motor_state' = "READY"
                 /\ focus_motor' = focus_motor
           /\ focus_motor_state = "UNINITIALIZED"
              => /\ \A i \in 1 .. Len(tx') : ZoomRelease(tx'[i])
                 /\ delta = 0
                 /\ focus_motor_last_known_angle' = prev]_vars

\* an idle tick has found the wheel turned since the tick before (the
\* speed it kept is not 0), counted the turn and sent only its two angle
\* reads
C30_Witness ==
  /\ op = "tick" /\ result = "ok" /\ events = <<>>
  /\ focus_motor_state = "READY"
  /\ focus_motor_last_run_init_speed # 0
  /\ focus_position # 0
  /\ tx = << <<2, 3, 28>>, <<2, 3, 28>> >>

\* a tick has counted a turn of the wheel while driving the motor on
C30_WitnessBusy ==
  /\ op = "tick" /\ result = "ok" /\ events = <<"FOCUS_MOVING">>
  /\ focus_motor_state = "BUSY"
  /\ focus_motor_last_run_init_speed # 0

\* a tick has come before initialization and sent nothing
C30_WitnessUninitialized ==
  /\ op = "tick" /\ result = "ok" /\ tx = <<>>
  /\ focus_motor_state = "UNINITIALIZED"
  /\ last_known_time = time_now
  /\ hw_focus_angle # 0

-----------------------------------------------------------------------------
(* The drive burst of a tick *)

\* the drive command for speed v to the focus motor
DriveAt(v) ==
  <<focus_motor._id, 7, 29, 1, 0>>
  \o _to_bytes(IF v < 0 THEN v + 65536 ELSE v)

\* the packets of seq from index i on
PacketsFrom(seq, i) == SubSeq(seq, i, Len(seq))

\* index of the first drive command in seq, 0 if there is none
FirstDrive(seq) ==
  IF \E i \in 1 .. Len(seq) : seq[i][3] = 29
  THEN CHOOSE i \in 1 .. Len(seq) :
         seq[i][3] = 29 /\ \A j \in 1 .. i - 1 : seq[j][3] # 29
  ELSE 0

\* C31: a drive burst first sends the configured speed with the sign of the
\* remaining distance; with e the estimated duration and T the tick
\* interval, if e > 4T it returns with the drive running and the run time
\* set to the sentinel -1, else if e > 0.2T it sleeps T/10 and then sends
\* speed 0, else it sleeps e/2 and then sends speed 0; the drive is left
\* running in the first case only
C31_BurstBranches ==
  [][(TickStep /\ TimeElapsed /\ events' # <<>>
      /\ events'[Len(events')] = "FOCUS_MOVING") =>
       LET steps_to_make == focus_target_position - focus_position'
           e == focus_estimate_steps_time(steps_to_make,
                                          focus_motor_last_run_init_speed',
                                          focus_temp', focus_volt')
           T == s.timer_interval * 1000000
           v == (IF steps_to_make < 0 THEN -1 ELSE 1) * s.focus_step_speed
           burst == focus_do_steps(focus_motor, steps_to_make,
                                   focus_motor_last_run_init_speed',
                                   focus_temp', focus_volt')
           sent == PacketsFrom(tx', FirstDrive(tx'))
       IN  /\ FirstDrive(tx') > 0
           /\ sent[1] = DriveAt(v)
           /\ sent = burst.out
           /\ IF e > 4 * T
              THEN /\ sent = <<DriveAt(v)>>
                   /\ burst.sleep = 0
                   /\ focus_motor_last_run_time' = -1000000
                   /\ hw_focus_speed' = v
              ELSE /\ sent = <<DriveAt(v), DriveAt(0)>>
                   /\ burst.sleep = (IF 5 * e > T THEN T \div 10
                                     ELSE e \div 2)
                   /\ focus_motor_last_run_time' # -1000000
                   /\ hw_focus_speed' = 0]_vars

\* a burst has left the drive running backwards
C31_Witness ==
  /\ op = "tick" /\ events = <<"FOCUS_MOVING">>
  /\ focus_motor_last_run_time = -1000000
  /\ hw_focus_speed = -1000
  /\ tx[Len(tx)] = <<2, 7, 29, 1, 0, 24, 252>>

\* a burst has slept a tenth of the tick interval and stopped the drive
C31_WitnessTenth ==
  /\ op = "tick" /\ events = <<"FOCUS_MOVING">>
  /\ focus_motor_last_run_time = 10000
  /\ hw_focus_speed = 0
  /\ tx[Len(tx)] = <<2, 7, 29, 1, 0, 0, 0>>

\* a burst has slept half its estimate, under a fifth of the tick interval,
\* and stopped the drive
C31_WitnessHalf ==
  /\ op = "tick" /\ events = <<"FOCUS_MOVING">>
  /\ focus_motor_last_run_time > 0
  /\ focus_motor_last_run_time < 10000
  /\ hw_focus_speed = 0
  /\ tx[Len(tx)] = <<2, 7, 29, 1, 0, 0, 0>>

-----------------------------------------------------------------------------
(* update_focus_position with a device whose successive angle reads differ  *)
(* (mctrl.py 198-227).                                                      *)

\* abs(new_angle - new_angle_test) <= focus_pos_precision for the raw
\* readings a and b
ReadsAgree(a, b) ==
  Abs(get_physical_angle(a) - get_physical_angle(b)) <= s.focus_pos_precision

\* an update that keeps its first read
SinglePoll(readings, i) == 1

\* the index of the last read the loop performs, the re-poll at index i
\* having just been read: the loop ends at a re-poll that agrees with the
\* read before it, and after the fifth re-poll
RECURSIVE LastPoll(_, _)
LastPoll(readings, i) ==
  IF i >= 6 \/ ReadsAgree(readings[i], readings[i - 1]) THEN i
  ELSE LastPoll(readings, i + 1)

\* the position counter up to which the caller goes on calling the update
MaxDrift == 48

\* update_focus_position(time_passed), the device answering the six raw
\* readings to the angle reads made of it
UpdateFocusPosition(readings, time_passed) ==
  LET n == LastPoll(readings, 2)
      new_angle == get_physical_angle(readings[n])
      angle_change == AngleChange(focus_motor_last_known_angle, new_angle)
  IN  /\ focus_motor_state # "UNINITIALIZED"
      /\ Abs(focus_position) <= MaxDrift
      /\ op' = "update_focus_position"
      /\ arg' = SubSeq(readings, 1, n)
      /\ result' = "ok"
      /\ ret' = <<>>
      /\ events' = <<>>
      /\ tx' = [i \in 1 .. n |-> <<focus_motor._id, 3, 28>>]
      /\ focus_motor_last_known_angle' = new_angle
      /\ focus_position' = focus_position + angle_change
      /\ focus_motor_last_run_init_speed' =
           InitSpeed(angle_change, time_passed)
      /\ focus_motor_last_run_time' = 0
      /\ focus_motor_last_run_direction' = 0
      /\ hw_focus_angle' = readings[n]
      /\ UNCHANGED <<zoom_motor_state, focus_motor_state,
                     focus_target_position, last_known_time, s, zoom_motor,
                     focus_motor, focus_temp, focus_volt,
                     focus_temp_volt_next_check, zoom_motor_busy_until_time,
                     port_open, hw_focus_speed, train_state, rx, decoded,
                     servo>>

\* raw readings one unit (0.24 degrees) and two units (0.48 degrees) apart,
\* the precision being 0.3 degrees
PollReadings == {0, 1, 3}

PollNext ==
  \/ Start(FocusSettings, {7400})
  \/ \E readings \in [1 .. 6 -> PollReadings] :
       UpdateFocusPosition(readings, 100)

PollSpec == Init /\ [][PollNext]_vars

\* C32: an update of the focus position reads the angle and re-polls it at
\* most 5 times, stopping at the first re-poll that agrees with the read
\* just before it within the precision: between 2 and 6 reads, the last of
\* them giving the angle the delta is taken to and that is stored
C32_RepollsUntilTwoReadsAgree ==
  [][op' = "update_focus_position" =>
       LET n == Len(arg')
       IN  /\ n \in 2 .. 6
           /\ Len(tx') = n
           /\ \A i \in 1 .. n : tx'[i] = <<focus_motor._id, 3, 28>>
           /\ \A i \in 2 .. n - 1 : ~ ReadsAgree(arg'[i], arg'[i - 1])
           /\ n < 6 => ReadsAgree(arg'[n], arg'[n - 1])
           /\ focus_motor_last_known_angle' = get_physical_angle(arg'[n])
           /\ focus_position' - focus_position
                = AngleChange(focus_motor_last_known_angle,
                              get_physical_angle(arg'[n]))]_vars

\* an update has read six angles, no two in a row agreeing, and kept the
\* last one
C32_Witness ==
  /\ op = "update_focus_position"
  /\ arg = <<0, 3, 0, 3, 0, 3>>
  /\ Len(tx) = 6
  /\ focus_motor_last_known_angle = 72

\* an update has stopped at its third read
C32_WitnessThree ==
  /\ op = "update_focus_position"
  /\ arg = <<3, 0, 1>>
  /\ Len(tx) = 3
  /\ focus_motor_last_known_angle = 24

-----------------------------------------------------------------------------
(* Torque and the two state machines *)

\* the default configuration and one whose zoom range ends at 300 degrees,
\* beyond the 270 degrees initialize limits the zoom servo to
WideSettings == {DefaultSettings, Config(1, 2, 0, 30000, 5000)}

\* both machines driven after one initialize
TorqueNext ==
  \/ Elapse(TimeSteps)
  \/ Start(WideSettings, {7400})
  \/ ZoomTo(Levels, {281})
  \/ TimerFires({0}, {7400})
  \/ FocusTo({20})
  \/ ResetTo({0})

TorqueSpec == Init /\ [][TorqueNext]_vars

\* C33: after a successful initialize and any calls of set_zoom_level,
\* move_focus, reset_focus_position and tick, failed ones included, the
\* torque flag of the zoom proxy is enabled exactly when the zoom state is
\* BUSY and the torque flag of the focus proxy exactly when the focus state
\* is BUSY
C33_TorqueIffBusy ==
  /\ zoom_motor._torque_enabled <=> zoom_motor_state = "BUSY"
  /\ focus_motor._torque_enabled <=> focus_motor_state = "BUSY"

-----------------------------------------------------------------------------
(* The list a tick returns *)

ZoomEvents == {"ZOOM_MOVING", "ZOOM_DONE"}

\* C34: the list a tick returns holds at most one zoom event (ZOOM_MOVING
\* or ZOOM_DONE) followed by at most one focus event (FOCUS_MOVING or
\* FOCUS_DONE); the zoom event is there only if the zoom was BUSY when the
\* tick began, the focus event only if the focus was BUSY then
C34_TickEventList ==
  [][TickStep =>
       \E zev \in {<<>>} \cup {<<e>> : e \in ZoomEvents},
          fev \in {<<>>} \cup {<<e>> : e \in FocusEvents} :
         /\ events' = zev \o fev
         /\ zev # <<>> => zoom_motor_state = "BUSY"
         /\ fev # <<>> => focus_motor_state = "BUSY"]_vars

\* a tick has reported both moves done, the zoom first
C34_Witness ==
  op = "tick" /\ events = <<"ZOOM_DONE", "FOCUS_DONE">>

\* a tick has reported the zoom still moving and the focus done
C34_WitnessMoving ==
  op = "tick" /\ events = <<"ZOOM_MOVING", "FOCUS_DONE">>

\* a tick with neither machine BUSY has returned the empty list
C34_WitnessIdle ==
  /\ op = "tick" /\ events = <<>> /\ result = "ok"
  /\ zoom_motor_state = "READY" /\ focus_motor_state = "READY"
  /\ tx # <<>>

-----------------------------------------------------------------------------
(* The drive speed the focus device was last given *)

\* C35: whenever the focus state is READY the last drive command sent to
\* the focus device is speed 0; a non-zero speed is outstanding between
\* operations only while the focus state is BUSY and the last burst left
\* the drive running (the run time holds the sentinel)
C35_DriveStoppedUnlessRunning ==
  /\ focus_motor_state = "READY" => hw_focus_speed = 0
  /\ hw_focus_speed # 0
     => /\ focus_motor_state = "BUSY"
        /\ focus_motor_last_run_time = -1000000

-----------------------------------------------------------------------------
(* Shutdown after a successful initialize *)

\* the torque-off packets shutdown owes the devices the settings attach
TorqueOffOwed ==
  (IF s.zoom_motor_id # 0 THEN << <<s.zoom_motor_id, 4, 31, 1>> >> ELSE <<>>)
  \o (IF s.focus_motor_id # 0 THEN << <<s.focus_motor_id, 4, 31, 1>> >>
                               ELSE <<>>)

\* C36: a shutdown that follows a successful initialize, whichever devices
\* the settings enable, leaves both machines UNINITIALIZED, has sent the
\* torque-off packet to every attached device and has closed the serial
\* port.
C36_ShutdownDetachesAndCloses ==
  [][(/\ CallStep("shutdown")
      /\ op = "initialize" /\ result = "ok") =>
       /\ zoom_motor_state' = "UNINITIALIZED"
       /\ focus_motor_state' = "UNINITIALIZED"
       /\ tx' = TorqueOffOwed
       /\ ~ port_open']_vars

-----------------------------------------------------------------------------
(* Resetting the position counter, a move in progress or not *)

\* values (cd) the caller resets the position counter to
ResetMarks == {0, 3000}

\* encoder units the wheel creeps between two operations: by less than the
\* precision (one unit either way) or by more (two units)
Creeps == {-2, -1, 1}

\* after a reset the wheel creeps off one of the marks before the next
\* operation
CreepsAfterReset ==
  \E d \in Creeps :
    /\ op = "reset_focus"
    /\ hw_focus_angle \in WheelMarks
    /\ WheelTurned(Turned(hw_focus_angle, d))

\* the caller resets the position counter, READY or BUSY, while the wheel
\* stands on one of the marks
ResetAtMark ==
  /\ hw_focus_angle \in WheelMarks
  /\ ResetTo(ResetMarks)

\* far moves, resets in the middle of them and a wheel that creeps after a
\* reset
ResetNext ==
  \/ Elapse({MaxElapsed})
  \/ Start(FocusSettings, {7400})
  \/ FocusTo({-MaxFocus, MaxFocus})
  \/ ResetAtMark
  \/ CreepsAfterReset
  \/ TimerFires({0}, {7400})

ResetSpec == Init /\ [][ResetNext]_vars

\* the wheel has turned by less than the precision since the angle was last
\* stored
WheelWithinPrecision ==
  Abs(AngleChange(focus_motor_last_known_angle,
                  get_physical_angle(hw_focus_angle))) < s.focus_pos_precision

C37_WitnessReset ==
  /\ op = "reset_focus" /\ result = "ok"
  /\ focus_motor_state = "BUSY"
  /\ focus_motor._torque_enabled
  /\ hw_focus_speed # 0
  /\ focus_position = 3000 /\ focus_target_position = 3000

=============================================================================
